---- MODULE Spec2Model ----
(***************************************************************************)
(* A model of the scanning and chain-consistency core of the light client: *)
(*   - zcash_client_backend/src/welding_rig.rs  (scan_output, scan_block)  *)
(*   - zcash_client_sqlite/src/lib.rs           (scan_cached_blocks, ...)  *)
(*   - zcash_client_sqlite/src/chain.rs         (validate_combined_chain,  *)
(*                                               rewind_to_height)         *)
(*   - zcash_primitives/src/sapling.rs          (Node::combine, empty_root)*)
(*                                                                         *)
(* The commitment tree and the incremental witness (merkle_tree.rs) and    *)
(* the note decryption (note_encryption.rs) are not among the source files;*)
(* they are modelled from the specification: a tree is the sequence of the *)
(* leaves appended to it, a witness is the tree it was cut from plus the   *)
(* leaves appended to it since, and roots are computed over a tree of      *)
(* depth TreeDepth with Node::combine as a collision-free hash.            *)
(***************************************************************************)
EXTENDS Integers, Sequences, FiniteSets, TLC

(***************************************************************************)
(* Bounds of the model.                                                    *)
(***************************************************************************)
\* Number of block heights the cache and the data database range over.
MaxBlocks == 3
\* Depth of the commitment trees and witnesses of the model: a tree holds
\* at most 2^TreeDepth leaves and its root is the node at this level.
TreeDepth == 4
\* Transactions per generated block and outputs per generated transaction.
MaxTxs == 2
MaxOutputs == 2
\* Number of tracked accounts (extfvks), in account order 0..NumAccounts-1.
NumAccounts == 2
\* Number of distinct block hashes.
NumHashes == 2
\* Number of times the downloader deletes cached blocks (chain reorgs).
MaxReorgs == 1

(***************************************************************************)
(* Program constants.                                                      *)
(***************************************************************************)
SAPLING_ACTIVATION_HEIGHT == 280000
\* sapling.rs:17
SAPLING_COMMITMENT_TREE_DEPTH == 32
\* Witness rows older than this many blocks are pruned.
PRUNE_DEPTH == 100

\* SQL NULL, and Option::None.
Null == -1
None == [none |-> TRUE]

(***************************************************************************)
(* State.                                                                  *)
(*   hashed            a call of the hash functions on its own             *)
(*   accounts          the accounts table: the key (extfvk) of account 0,  *)
(*                     of account 1, ..                                    *)
(*   cache             the cache database: compactblocks, by height        *)
(*   reorgs            how many times cached blocks have been deleted      *)
(*   blocks, transactions, received_notes, sapling_witnesses               *)
(*                     the committed tables of the data database           *)
(*   pass              the API call in progress on the connection whose    *)
(*                     statements the steps execute: where it stands (pc)  *)
(*                     and what it holds in memory                         *)
(*   ret               what the last finished API call returned            *)
(*   weld              a scan_block call on its own: inputs and result     *)
(*   peer              the API call in progress on a second connection,    *)
(*                     while it is not the one taking steps                *)
(*                                                                         *)
(* Every API call opens connections of its own and runs its statements one *)
(* by one; only those between BEGIN IMMEDIATE and COMMIT are one           *)
(* transaction.  A caller makes one call at a time: a call begins when no  *)
(* call of this caller is in progress (pass = Idle).  Spec, SpecChain,     *)
(* SpecInit, SpecExpiry and SpecLong are the behaviours of a single        *)
(* caller, in which a call that has begun runs to its end; in SpecTwo and  *)
(* SpecOverlap a second caller is at work, and Switch lets the statements  *)
(* of the two calls interleave.                                            *)
(***************************************************************************)
VARIABLES hashed, accounts, cache, reorgs, blocks, transactions, received_notes,
          sapling_witnesses, pass, ret, weld, peer

dbvars == <<blocks, transactions, received_notes, sapling_witnesses>>
vars == <<hashed, accounts, cache, reorgs, blocks, transactions, received_notes,
          sapling_witnesses, pass, ret, weld, peer>>

\* The keys an accounts table is made of, and the table of all of them.
Keys == 0 .. (NumAccounts - 1)
AllKeys == [i \in 1 .. NumAccounts |-> i - 1]

\* The account indexes of the accounts table (lib.rs:196-200): account is
\* the PRIMARY KEY, 0, 1, .. in the order of the keys (lib.rs:309).
Accounts == 0 .. (Len(accounts) - 1)
Heights == SAPLING_ACTIVATION_HEIGHT .. (SAPLING_ACTIVATION_HEIGHT + MaxBlocks - 1)
Hashes == 1 .. NumHashes

Max(a, b) == IF a >= b THEN a ELSE b
RECURSIVE Pow2(_)
Pow2(n) == IF n = 0 THEN 1 ELSE 2 * Pow2(n - 1)

(***************************************************************************)
(* The Pedersen hash and its personalization (pedersen_hash.rs).  The hash *)
(* is a free (collision-free) function of the bits it is given: its value  *)
(* is the pair of the personalization bits and the bits that follow.       *)
(***************************************************************************)
NoteCommitment == [kind |-> "NoteCommitment"]
MerkleTree(num) == [kind |-> "MerkleTree", num |-> num]

\* Personalization::get_bits without its assertion.
get_bits_unasserted(personalization) ==
    IF personalization.kind = "NoteCommitment"
    THEN [panic |-> FALSE, bits |-> <<TRUE, TRUE, TRUE, TRUE, TRUE, TRUE>>]
    ELSE [panic |-> FALSE,
          bits |-> [i \in 1 .. 6 |-> (personalization.num \div Pow2(i - 1)) % 2 = 1]]

\* Personalization::get_bits (pedersen_hash.rs:13-23); panic is the failed
\* assert!(num < 63).
get_bits(personalization) ==
    IF personalization.kind = "NoteCommitment"
    THEN [panic |-> FALSE, bits |-> <<TRUE, TRUE, TRUE, TRUE, TRUE, TRUE>>]
    ELSE IF ~(personalization.num < 63)
    THEN [panic |-> TRUE, bits |-> <<>>]
    ELSE [panic |-> FALSE,
          \* (0..6).map(|i| (num >> i) & 1 == 1)
          bits |-> [i \in 1 .. 6 |-> (personalization.num \div Pow2(i - 1)) % 2 = 1]]

\* pedersen_hash (pedersen_hash.rs:26-36): the personalization bits chained
\* with the input bits.
pedersen_hash(personalization, bits) ==
    LET prefix == get_bits(personalization)
    IN IF prefix.panic THEN [panic |-> TRUE, point |-> Null]
       ELSE [panic |-> FALSE, point |-> <<prefix.bits, bits>>]

(***************************************************************************)
(* Node (sapling.rs).  A leaf is a small integer.                          *)
(***************************************************************************)
\* The bits of lhs chained with the bits of rhs (sapling.rs:38-41).  Two
\* equal children are written once: equal inputs stay equal and different
\* inputs different, and a node over two equal subtrees stays small.
ChildBits(lhs, rhs) == IF lhs = rhs THEN <<lhs>> ELSE <<lhs, rhs>>

\* merkle_hash(depth, lhs, rhs) (sapling.rs:19-44)
merkle_hash(depth, lhs, rhs) == pedersen_hash(MerkleTree(depth), ChildBits(lhs, rhs))

\* Node::blank(): the uncommitted leaf.
Blank == 0
\* Node::combine(depth, lhs, rhs) = merkle_hash(depth, lhs, rhs)
Combine(depth, lhs, rhs) == merkle_hash(depth, lhs, rhs).point

\* EMPTY_ROOTS (sapling.rs:98-106): v = [blank], then for every depth d in
\* 0..SAPLING_COMMITMENT_TREE_DEPTH, v.push(combine(d, v[d], v[d])).
RECURSIVE EmptyRootsFrom(_, _)
EmptyRootsFrom(v, d) ==
    IF d >= SAPLING_COMMITMENT_TREE_DEPTH THEN v
    ELSE EmptyRootsFrom(Append(v, Combine(d, v[d + 1], v[d + 1])), d + 1)
EMPTY_ROOTS == EmptyRootsFrom(<<Blank>>, 0)

\* Node::empty_root(depth) = EMPTY_ROOTS[depth]
EmptyRoot(depth) == EMPTY_ROOTS[depth + 1]

(***************************************************************************)
(* CommitmentTree and IncrementalWitness (merkle_tree.rs, modelled from    *)
(* the specification, sections 3, 4.1 and 4.2).                            *)
(***************************************************************************)
\* CommitmentTree::new()
EmptyTree == <<>>
TreeSize(tree) == Len(tree)
\* CommitmentTree::append: Err when the tree holds 2^depth leaves.
TreeFull(tree) == Len(tree) >= Pow2(TreeDepth)
TreeAppend(tree, node) == Append(tree, node)

\* The node at (level, idx) of the fixed-depth tree over `leaves`.
RECURSIVE NodeAt(_, _, _)
NodeAt(leaves, level, idx) ==
    IF idx * Pow2(level) >= Len(leaves) THEN EmptyRoot(level)
    ELSE IF level = 0 THEN leaves[idx + 1]
    ELSE Combine(level - 1, NodeAt(leaves, level - 1, 2 * idx),
                            NodeAt(leaves, level - 1, 2 * idx + 1))

\* CommitmentTree::root()
TreeRoot(tree) == NodeAt(tree, TreeDepth, 0)

\* IncrementalWitness::from_tree(tree): tracks the last leaf of `tree`.
WitnessFromTree(tree) == [tree |-> tree, filled |-> <<>>]
\* IncrementalWitness::position()
WitnessPosition(w) == Len(w.tree) - 1
\* IncrementalWitness::append(node)
WitnessFull(w) == Len(w.tree) + Len(w.filled) >= Pow2(TreeDepth)
WitnessAppend(w, node) == [w EXCEPT !.filled = Append(@, node)]
\* The leaves a witness has been driven with.
WitnessLeaves(w) == w.tree \o w.filled
\* IncrementalWitness::path(): the sibling at every level, leaf to root.
WitnessPath(w) ==
    [l \in 1 .. TreeDepth |->
        LET i == WitnessPosition(w) \div Pow2(l - 1)
        IN  NodeAt(WitnessLeaves(w), l - 1, IF i % 2 = 0 THEN i + 1 ELSE i - 1)]
\* IncrementalWitness::root(): recomputed from the leaf and its path.
RECURSIVE PathRoot(_, _, _, _)
PathRoot(path, pos, level, cur) ==
    IF level = TreeDepth THEN cur
    ELSE PathRoot(path, pos \div 2, level + 1,
                  IF pos % 2 = 0 THEN Combine(level, cur, path[level + 1])
                  ELSE Combine(level, path[level + 1], cur))
WitnessRoot(w) ==
    PathRoot(WitnessPath(w), WitnessPosition(w), 0, w.tree[Len(w.tree)])

(***************************************************************************)
(* Compact blocks (proto::compact_formats).                                *)
(*   block  = [height, hash, prev_hash, vtx]                               *)
(*   tx     = [hash, index, spends, outputs]     spends: Seq of nullifiers *)
(*   output = [cmu, epk, ciphertext]                                       *)
(* A cmu or epk whose bytes do not decode is Malformed.  The ciphertext is *)
(* what note decryption makes of it: the accounts whose incoming viewing   *)
(* key decrypts it, and the value of the note inside.                      *)
(***************************************************************************)
Malformed == Null
ValidEpk == 1

\* The nullifier of a note: Note::nf(vk, position), a collision-free value
\* of the note (its commitment), the viewing key and the leaf position.
NoteNf(cmu, account, position) == <<cmu, account, position>>

\* trial_decrypt(cmu, epk, enc_ct, ivk)
trial_decrypt(output, ivk) ==
    IF ivk \in output.ciphertext.keys
    THEN [value |-> output.ciphertext.value]
    ELSE None

SeqMap(Op(_), s) == [i \in DOMAIN s |-> Op(s[i])]

\* A note is marked as "change" if the account that received it also spent
\* notes in the same transaction (welding_rig.rs:79-85).
IsChangeOnAnySpend(account, spent_from_accounts) == spent_from_accounts # {}
IsChange(account, spent_from_accounts) == account \in spent_from_accounts

\* for (account, ivk) in ivks.iter().enumerate(): the keys are tried in
\* account order and the first that decrypts returns (welding_rig.rs:73-77).
LastKey(decrypting) == CHOOSE a \in decrypting : \A b \in decrypting : a >= b
FirstKey(decrypting) == CHOOSE a \in decrypting : \A b \in decrypting : a <= b

(***************************************************************************)
(* scan_output (welding_rig.rs:36-101).  Returns the tree and the witness  *)
(* lists as the call leaves them, and in `found` the WalletShieldedOutput  *)
(* with its new witness, or None.  `panic` is the unwrap() of a failed     *)
(* append.                                                                 *)
(***************************************************************************)
scan_output(index, output, ivks, spent_from_accounts, tree, existing_witnesses, new_witnesses) ==
    LET unchanged == [tree |-> tree, existing_witnesses |-> existing_witnesses,
                      new_witnesses |-> new_witnesses, found |-> None, panic |-> FALSE]
    IN
    IF output.cmu = Malformed THEN unchanged
    ELSE IF output.epk = Malformed THEN unchanged
    ELSE
      LET node == output.cmu
          full == \/ TreeFull(tree)
                  \/ \E i \in DOMAIN existing_witnesses : WitnessFull(existing_witnesses[i])
                  \/ \E i \in DOMAIN new_witnesses : WitnessFull(new_witnesses[i])
          \* Increment tree and witnesses
          ew == [i \in DOMAIN existing_witnesses |-> WitnessAppend(existing_witnesses[i], node)]
          nw == [i \in DOMAIN new_witnesses |-> WitnessAppend(new_witnesses[i], node)]
          t  == TreeAppend(tree, node)
          decrypting == {a \in 0 .. (Len(ivks) - 1) : trial_decrypt(output, ivks[a + 1]) # None}
      IN
      IF full THEN [unchanged EXCEPT !.panic = TRUE]
      ELSE IF decrypting = {}
      THEN [tree |-> t, existing_witnesses |-> ew, new_witnesses |-> nw,
            found |-> None, panic |-> FALSE]
      ELSE
        LET account == FirstKey(decrypting)
            note == trial_decrypt(output, ivks[account + 1])
        IN [tree |-> t, existing_witnesses |-> ew, new_witnesses |-> nw,
            found |-> [output |-> [index |-> index, cmu |-> output.cmu,
                                   account |-> account, value |-> note.value,
                                   is_change |-> IsChange(account, spent_from_accounts)],
                       witness |-> WitnessFromTree(t)],
            panic |-> FALSE]

\* The loop over tx.outputs (welding_rig.rs:150-164), from output i on.
RECURSIVE scan_outputs(_, _, _, _, _)
scan_outputs(outputs, i, ivks, spent_from_accounts, st) ==
    IF i > Len(outputs) \/ st.panic THEN st
    ELSE
      LET r == scan_output(i - 1, outputs[i], ivks, spent_from_accounts, st.tree,
                           st.existing_witnesses, st.new_witnesses)
          pushed == r.found # None
      IN scan_outputs(outputs, i + 1, ivks, spent_from_accounts,
           [tree |-> r.tree,
            existing_witnesses |-> r.existing_witnesses,
            new_witnesses |-> IF pushed THEN Append(r.new_witnesses, r.found.witness)
                              ELSE r.new_witnesses,
            shielded_outputs |-> IF pushed THEN Append(st.shielded_outputs, r.found.output)
                                 ELSE st.shielded_outputs,
            panic |-> r.panic])

\* nullifiers.iter().find_map(..): the account of the first entry with this nf.
FindNullifier(nullifiers, nf) ==
    LET hits == {i \in DOMAIN nullifiers : nullifiers[i][1] = nf}
    IN IF hits = {} THEN None
       ELSE [account |-> nullifiers[CHOOSE i \in hits : \A j \in hits : i <= j][2]]

\* The spends of a transaction that match a tracked nullifier, in order
\* (welding_rig.rs:121-143).
RECURSIVE shielded_spends(_, _, _)
shielded_spends(spends, i, nullifiers) ==
    IF i > Len(spends) THEN <<>>
    ELSE LET hit == FindNullifier(nullifiers, spends[i])
             rest == shielded_spends(spends, i + 1, nullifiers)
         IN IF hit = None THEN rest
            ELSE <<[index |-> i - 1, nf |-> spends[i], account |-> hit.account]>> \o rest

\* The loop over block.vtx (welding_rig.rs:117-181), from transaction k on.
RECURSIVE scan_txs(_, _, _, _, _)
scan_txs(vtx, k, ivks, nullifiers, st) ==
    IF k > Len(vtx) \/ st.panic THEN st
    ELSE
      LET tx == vtx[k]
          spends == shielded_spends(tx.spends, 1, nullifiers)
          spent_from_accounts == {spends[i].account : i \in DOMAIN spends}
          r == scan_outputs(tx.outputs, 1, ivks, spent_from_accounts,
                 [tree |-> st.tree, existing_witnesses |-> st.existing_witnesses,
                  new_witnesses |-> <<>>, shielded_outputs |-> <<>>, panic |-> FALSE])
          touched == ~(spends = <<>> /\ r.shielded_outputs = <<>>)
          wtx == [tx |-> [txid |-> tx.hash, index |-> tx.index,
                          num_spends |-> Len(tx.spends), num_outputs |-> Len(tx.outputs),
                          shielded_spends |-> spends,
                          shielded_outputs |-> r.shielded_outputs],
                  new_witnesses |-> r.new_witnesses]
      IN scan_txs(vtx, k + 1, ivks, nullifiers,
           [tree |-> r.tree, existing_witnesses |-> r.existing_witnesses,
            wtxs |-> IF touched THEN Append(st.wtxs, wtx) ELSE st.wtxs,
            panic |-> r.panic])

\* scan_block (welding_rig.rs:107-184)
scan_block(block, extfvks, nullifiers, tree, existing_witnesses) ==
    scan_txs(block.vtx, 1, extfvks, nullifiers,
             [tree |-> tree, existing_witnesses |-> existing_witnesses,
              wtxs |-> <<>>, panic |-> FALSE])


(***************************************************************************)
(* scan_block on its own, on generated blocks.                             *)
(***************************************************************************)
\* Sequences over S of length 0..n.
SeqsUpTo(S, n) == UNION {[1 .. k -> S] : k \in 0 .. n}

\* The outputs a generated transaction is made of: a malformed cmu, a
\* malformed epk, or a well-formed output decryptable by any set of accounts.
WeldOutputs ==
    {[cmu |-> Malformed, epk |-> ValidEpk, ciphertext |-> [keys |-> {}, value |-> 1]],
     [cmu |-> 1, epk |-> Malformed, ciphertext |-> [keys |-> {}, value |-> 1]]}
    \cup {[cmu |-> 1, epk |-> ValidEpk, ciphertext |-> [keys |-> K, value |-> 1]] :
            K \in SUBSET Keys}

\* A tree of one leaf, owned by account 0 and witnessed.
WeldNote == WitnessFromTree(<<1>>)
WeldNf == NoteNf(1, 0, 0)

WeldTxBodies ==
    {[spends |-> sp, outputs |-> outs] :
        sp \in {<<>>, <<WeldNf>>}, outs \in SeqsUpTo(WeldOutputs, MaxOutputs)}
\* The commitment of output j of transaction k of a generated block: every
\* well-formed output of a block has a commitment of its own.
WeldCmu(k, j) == 10 * k + j

\* Blocks of up to MaxTxs generated transactions; the hash of transaction k
\* is k.
WeldBlocks ==
    {[height |-> SAPLING_ACTIVATION_HEIGHT, hash |-> 1, prev_hash |-> 1,
      vtx |-> [k \in DOMAIN bodies |->
                  [hash |-> k, index |-> k - 1,
                   spends |-> bodies[k].spends,
                   outputs |-> [j \in DOMAIN bodies[k].outputs |->
                                  IF bodies[k].outputs[j].cmu = Malformed
                                  THEN bodies[k].outputs[j]
                                  ELSE [bodies[k].outputs[j] EXCEPT !.cmu = WeldCmu(k, j)]]]]] :
        bodies \in SeqsUpTo(WeldTxBodies, MaxTxs)}

\* Trees with existing witnesses whose roots agree with the tree's.
WeldStarts ==
    {[tree |-> EmptyTree, existing_witnesses |-> <<>>],
     [tree |-> <<1>>, existing_witnesses |-> <<WeldNote>>],
     [tree |-> <<1, 1>>, existing_witnesses |-> <<WitnessAppend(WeldNote, 1)>>]}

NoWeld == [block |-> None, nullifiers |-> <<>>, tree |-> EmptyTree,
           existing_witnesses |-> <<>>, out |-> None]
Idle == [pc |-> "idle"]
NoRet == [op |-> "none"]

NoHash == [call |-> "none"]

\* The data database as init_data_database leaves it.
InitTables ==
    /\ reorgs = 0
    /\ blocks = [h \in {} |-> None]
    /\ transactions = <<>>
    /\ received_notes = <<>>
    /\ sapling_witnesses = {}
    /\ pass = Idle
    /\ peer = Idle
    /\ ret = NoRet

\* The databases as init_data_database and init_cache_database leave them.
InitData ==
    /\ cache = [h \in Heights |-> None]
    /\ InitTables

\* A wallet whose accounts table holds the NumAccounts keys.
InitWallet ==
    /\ InitData
    /\ accounts = AllKeys
    /\ hashed = NoHash

InitWeld ==
    /\ InitWallet
    /\ \E b \in WeldBlocks, st \in WeldStarts, nfs \in {<<>>, <<<<WeldNf, 0>>>>} :
          weld = [block |-> b, nullifiers |-> nfs, tree |-> st.tree,
                  existing_witnesses |-> st.existing_witnesses, out |-> None]

WeldScan ==
    /\ weld.out = None
    /\ weld' = [weld EXCEPT !.out = scan_block(weld.block, accounts, weld.nullifiers,
                                               weld.tree, weld.existing_witnesses)]
    /\ UNCHANGED <<hashed, accounts, cache, reorgs, dbvars, pass, ret, peer>>

NextWeld == WeldScan
SpecWeld == InitWeld /\ [][NextWeld]_vars

\* The number of outputs of a block, malformed ones included.
RECURSIVE NumOutputs(_, _)
NumOutputs(vtx, k) ==
    IF k > Len(vtx) THEN 0 ELSE Len(vtx[k].outputs) + NumOutputs(vtx, k + 1)

\* Every witness scan_block leaves behind: the existing ones and the new
\* ones of every returned transaction.
WitnessesAfter(out) ==
    {out.existing_witnesses[i] : i \in DOMAIN out.existing_witnesses}
    \cup UNION {{out.wtxs[k].new_witnesses[i] : i \in DOMAIN out.wtxs[k].new_witnesses} :
                  k \in DOMAIN out.wtxs}

\* C1: after scan_block returns, every existing witness and every new
\* witness returned for any transaction of the block has root() equal to
\* tree.root().
C1_WitnessRootParity ==
    weld.out # None =>
        \A w \in WitnessesAfter(weld.out) : WitnessRoot(w) = TreeRoot(weld.out.tree)

\* C2: after scan_block the number of leaves added to the tree equals the
\* number of outputs of the block, malformed ones included.
C2_EveryOutputIsALeaf ==
    weld.out # None =>
        TreeSize(weld.out.tree) = TreeSize(weld.tree) + NumOutputs(weld.block.vtx, 1)

(***************************************************************************)
(* The data database (lib.rs:193-272).                                     *)
(*   blocks            height -> [sapling_tree]                            *)
(*   transactions      id_tx (1..) -> [txid, block, tx_index, expiry_height]*)
(*   received_notes    id_note (1..) -> [tx, output_index, account, value, *)
(*                                       nf, is_change, spent]             *)
(*   sapling_witnesses set of [note, block, witness]                       *)
(* and accounts, above.  The time column of blocks is left out: no         *)
(* statement reads it.                                                     *)
(***************************************************************************)
DB == [blocks |-> blocks, transactions |-> transactions,
       received_notes |-> received_notes, sapling_witnesses |-> sapling_witnesses]

\* The columns of blocks (lib.rs:203-210).
BlocksColumns == {"height", "time", "sapling_tree"}

\* A row of blocks, under its height: the encoded tree.
BlockRow(tree) == [sapling_tree |-> tree]

SetMax(S) == CHOOSE x \in S : \A y \in S : y <= x
SetMin(S) == CHOOSE x \in S : \A y \in S : x <= y

\* SELECT MAX(height) FROM blocks, or Sapling activation - 1 for no block.
LastScannedHeight(blks) ==
    IF DOMAIN blks = {} THEN SAPLING_ACTIVATION_HEIGHT - 1 ELSE SetMax(DOMAIN blks)

\* SELECT height, data FROM compactblocks WHERE height > ?
CachedFrom(c, height) == {h \in DOMAIN c : h >= height /\ c[h] # None}
CachedAbove(c, height) == {h \in DOMAIN c : h > height /\ c[h] # None}

\* Results of the API calls.
Ok(op) == [op |-> op, kind |-> "Ok", a |-> Null, b |-> Null]
Err(op, kind, a, b) == [op |-> op, kind |-> kind, a |-> a, b |-> b]

(***************************************************************************)
(* validate_combined_chain (chain.rs:85-163)                               *)
(***************************************************************************)
\* Cached blocks MUST be hash-chained (chain.rs:138-139).
HashChained(block_hash, last_prev_hash) == block_hash = last_prev_hash

\* Cached blocks MUST hash-chain to the last scanned block (chain.rs:154).
LinksToScanned(last_scanned_hash, last_prev_hash) == last_scanned_hash = last_prev_hash

\* The loop with the hash check ahead of the height check.
RECURSIVE ValidateWalkHashFirst(_, _, _, _)
ValidateWalkHashFirst(c, rows, last_height, last_prev_hash) ==
    IF rows = {} THEN [prev_hash |-> last_prev_hash]
    ELSE
      LET height == SetMax(rows)
          block == c[height]
      IN  IF ~HashChained(block.hash, last_prev_hash)
          THEN Err("validate", "InvalidChain", height, Null)
          ELSE IF height # last_height - 1
          THEN Err("validate", "InvalidHeight", last_height - 1, height)
          ELSE ValidateWalkHashFirst(c, rows \ {height}, height, block.prev_hash)

\* The loop over the remaining rows, in descending height (chain.rs:127-146).
\* Returns an error, or the prev_hash of the lowest cached block.
RECURSIVE ValidateWalk(_, _, _, _)
ValidateWalk(c, rows, last_height, last_prev_hash) ==
    IF rows = {} THEN [prev_hash |-> last_prev_hash]
    ELSE
      LET height == SetMax(rows)
          block == c[height]
      IN  \* Scanned blocks MUST be height-sequential.
          IF height # last_height - 1
          THEN Err("validate", "InvalidHeight", last_height - 1, height)
          \* Cached blocks MUST be hash-chained.
          ELSE IF ~HashChained(block.hash, last_prev_hash)
          THEN Err("validate", "InvalidChain", height, Null)
          ELSE ValidateWalk(c, rows \ {height}, height, block.prev_hash)

\* The cached blocks above the last scanned height, from the highest one
\* down (chain.rs:103-146): Ok for no such block, the error of the walk, or
\* the prev_hash of the lowest cached block.
ValidateCached(c, last_scanned_height) ==
    LET rows == CachedAbove(c, last_scanned_height)
    IN IF rows = {} THEN Ok("validate")
       ELSE LET top == c[SetMax(rows)]
            IN ValidateWalk(c, rows \ {SetMax(rows)}, top.height, top.prev_hash)

\* The link to the last scanned block (chain.rs:148-159).  SELECT hash FROM
\* blocks WHERE height = ? names a column the table does not have, and
\* query_row returns the error of preparing it; it would return an error
\* for no row at the height as well.
ValidateLink(blks, last_scanned_height, last_prev_hash) ==
    IF "hash" \notin BlocksColumns \/ last_scanned_height \notin DOMAIN blks
    THEN Err("validate", "Database", Null, Null)
    ELSE IF ~LinksToScanned(blks[last_scanned_height].hash, last_prev_hash)
    THEN Err("validate", "InvalidChain", last_scanned_height, Null)
    ELSE Ok("validate")

\* The call on databases that no other call writes meanwhile.
validate_combined_chain(c, blks) ==
    LET last_scanned_height == LastScannedHeight(blks)
        walk == ValidateCached(c, last_scanned_height)
    IN IF "kind" \in DOMAIN walk THEN walk
       ELSE ValidateLink(blks, last_scanned_height, walk.prev_hash)

(***************************************************************************)
(* rewind_to_height (chain.rs:169-207), on the tables.                     *)
(***************************************************************************)
\* rewind_to_height deleting the transactions instead of un-mining them.
rewind_deleting_transactions(db, height) ==
    IF height >= LastScannedHeight(db.blocks) THEN db
    ELSE [db EXCEPT
            !.sapling_witnesses = {w \in @ : ~(w.block > height)},
            !.transactions = SelectSeq(@, LAMBDA t : ~(t.block # Null /\ t.block > height)),
            !.blocks = [h \in {x \in DOMAIN @ : ~(x > height)} |-> @[h]]]

\* rewind_to_height binding the last scanned height - 1 instead of the
\* requested height to its statements.
rewind_one_block(db, height) ==
    IF height >= LastScannedHeight(db.blocks) THEN db
    ELSE LET to == LastScannedHeight(db.blocks) - 1
         IN [db EXCEPT
               !.sapling_witnesses = {w \in @ : ~(w.block > to)},
               !.transactions =
                   [i \in DOMAIN @ |->
                       IF @[i].block # Null /\ @[i].block > to
                       THEN [@[i] EXCEPT !.block = Null, !.tx_index = Null]
                       ELSE @[i]],
               !.blocks = [h \in {x \in DOMAIN @ : ~(x > to)} |-> @[h]]]

\* rewind_to_height deleting the scanned blocks alone, without the rows
\* that depend on them.
rewind_blocks_only(db, height) ==
    IF height >= LastScannedHeight(db.blocks) THEN db
    ELSE [db EXCEPT !.blocks = [h \in {x \in DOMAIN @ : ~(x > height)} |-> @[h]]]

rewind_to_height(db, height) ==
    IF height >= LastScannedHeight(db.blocks) THEN db
    ELSE
      [db EXCEPT
        \* DELETE FROM sapling_witnesses WHERE block > ?
        !.sapling_witnesses = {w \in @ : ~(w.block > height)},
        \* UPDATE transactions SET block = NULL, tx_index = NULL WHERE block > ?
        !.transactions =
            [i \in DOMAIN @ |->
                IF @[i].block # Null /\ @[i].block > height
                THEN [@[i] EXCEPT !.block = Null, !.tx_index = Null]
                ELSE @[i]],
        \* DELETE FROM blocks WHERE height > ?
        !.blocks = [h \in {x \in DOMAIN @ : ~(x > height)} |-> @[h]]]


(***************************************************************************)
(* scan_cached_blocks (lib.rs:473-743): the statements of one block, on    *)
(* the tables of the open SQL transaction.  A statement that violates a    *)
(* constraint of the schema fails (`failed`), and `?` returns the error.   *)
(***************************************************************************)
\* The insert of a block as INSERT OR REPLACE: a row of the same height is
\* overwritten.
InsertBlockReplacing(db, height, tree) ==
    [db |-> [db EXCEPT !.blocks =
                (height :> BlockRow(tree)) @@ [h \in DOMAIN @ \ {height} |-> @[h]]],
     failed |-> FALSE]

\* stmt_insert_block: INSERT INTO blocks (height, time, sapling_tree)
\* (lib.rs:548-551, executed at 636-640); height is the PRIMARY KEY.
InsertBlock(db, height, tree) ==
    IF height \in DOMAIN db.blocks THEN [db |-> db, failed |-> TRUE]
    ELSE [db |-> [db EXCEPT !.blocks = (height :> BlockRow(tree)) @@ @],
          failed |-> FALSE]

\* stmt_insert_tx alone: a row is inserted whether or not the txid has one.
InsertTx(db, height, tx) ==
    [db |-> [db EXCEPT !.transactions =
                Append(@, [txid |-> tx.txid, block |-> height,
                           tx_index |-> tx.index, expiry_height |-> Null])],
     tx_row |-> Len(db.transactions) + 1]

\* stmt_update_tx, else stmt_insert_tx (lib.rs:643-661): the tables and the
\* id of the row of this txid.
UpsertTx(db, height, tx) ==
    LET found == {i \in DOMAIN db.transactions : db.transactions[i].txid = tx.txid}
    IN IF found = {}
       THEN [db |-> [db EXCEPT !.transactions =
                        Append(@, [txid |-> tx.txid, block |-> height,
                                   tx_index |-> tx.index, expiry_height |-> Null])],
             tx_row |-> Len(db.transactions) + 1]
       ELSE [db |-> [db EXCEPT !.transactions =
                        [i \in DOMAIN @ |->
                            IF i \in found
                            THEN [@[i] EXCEPT !.block = height, !.tx_index = tx.index]
                            ELSE @[i]]],
             tx_row |-> SetMin(found)]

\* stmt_mark_spent_note for every matched spend (lib.rs:663-666).
MarkSpent(db, tx_row, spends) ==
    LET nfs == {spends[i].nf : i \in DOMAIN spends}
    IN [db EXCEPT !.received_notes =
          [i \in DOMAIN @ |-> IF @[i].nf \in nfs THEN [@[i] EXCEPT !.spent = tx_row]
                              ELSE @[i]]]

\* nullifiers.into_iter().filter(..) (lib.rs:667-675)
RECURSIVE DropSpent(_, _)
DropSpent(nullifiers, nfs) ==
    IF nullifiers = <<>> THEN <<>>
    ELSE IF Head(nullifiers)[1] \in nfs THEN DropSpent(Tail(nullifiers), nfs)
    ELSE <<Head(nullifiers)>> \o DropSpent(Tail(nullifiers), nfs)

\* The nullifier of a note taken at leaf 0, whatever its witness.
NullifierAtFirstLeaf(output, witness) == NoteNf(output.cmu, output.account, 0)

\* output.note.nf(&extfvks[output.account].fvk.vk, witness.position(), ..)
\* (lib.rs:684-688)
NoteNullifier(output, witness) ==
    NoteNf(output.cmu, output.account, WitnessPosition(witness))

\* The loop over the discovered outputs of one transaction and their
\* witnesses (lib.rs:677-714), from the i-th on.  st = [db, witnesses,
\* nullifiers, failed].
RECURSIVE PersistOutputs(_, _, _, _)
PersistOutputs(st, tx_row, wtx, i) ==
    IF st.failed \/ i > Len(wtx.tx.shielded_outputs) \/ i > Len(wtx.new_witnesses) THEN st
    ELSE
      LET output == wtx.tx.shielded_outputs[i]
          witness == wtx.new_witnesses[i]
          nf == NoteNullifier(output, witness)
          notes == st.db.received_notes
          \* nf UNIQUE, CONSTRAINT tx_output UNIQUE (tx, output_index)
          clash == \E n \in DOMAIN notes :
                      \/ notes[n].nf = nf
                      \/ notes[n].tx = tx_row /\ notes[n].output_index = output.index
          note_row == Len(notes) + 1
      IN
      IF clash THEN [st EXCEPT !.failed = TRUE]
      ELSE PersistOutputs(
             [db |-> [st.db EXCEPT !.received_notes =
                        Append(@, [tx |-> tx_row, output_index |-> output.index,
                                   account |-> output.account, value |-> output.value,
                                   nf |-> nf, is_change |-> output.is_change,
                                   spent |-> Null])],
              \* Save witness for note.
              witnesses |-> Append(st.witnesses, [id_note |-> note_row, witness |-> witness]),
              \* Cache nullifier for note.
              nullifiers |-> Append(st.nullifiers, <<nf, output.account>>),
              failed |-> FALSE],
             tx_row, wtx, i + 1)

\* The loop over the scanned transactions (lib.rs:642-715), from the k-th on.
RECURSIVE PersistTxs(_, _, _, _)
PersistTxs(st, height, txs, k) ==
    IF st.failed \/ k > Len(txs) THEN st
    ELSE
      LET wtx == txs[k]
          up == UpsertTx(st.db, height, wtx.tx)
          spends == wtx.tx.shielded_spends
          marked == MarkSpent(up.db, up.tx_row, spends)
          kept == DropSpent(st.nullifiers, {spends[i].nf : i \in DOMAIN spends})
      IN PersistTxs(
           PersistOutputs([db |-> marked, witnesses |-> st.witnesses,
                           nullifiers |-> kept, failed |-> FALSE],
                          up.tx_row, wtx, 1),
           height, txs, k + 1)

\* The witnesses of the block left out of the table.
InsertWitnessesOfNoNote(db, witnesses, last_height) == [db |-> db, failed |-> FALSE]

\* stmt_insert_witness for every witness (lib.rs:717-730);
\* CONSTRAINT witness_height UNIQUE (note, block).
InsertWitnesses(db, witnesses, last_height) ==
    LET rows == {[note |-> witnesses[i].id_note, block |-> last_height,
                  witness |-> witnesses[i].witness] : i \in DOMAIN witnesses}
        clash == \/ \E r \in rows, w \in db.sapling_witnesses :
                        r.note = w.note /\ r.block = w.block
                 \/ \E i, j \in DOMAIN witnesses :
                        i # j /\ witnesses[i].id_note = witnesses[j].id_note
    IN IF clash THEN [db |-> db, failed |-> TRUE]
       ELSE [db |-> [db EXCEPT !.sapling_witnesses = @ \cup rows], failed |-> FALSE]

\* stmt_prune_witnesses (lib.rs:732-733)
PruneWitnesses(db, last_height) ==
    [db EXCEPT !.sapling_witnesses = {w \in @ : ~(w.block < last_height - PRUNE_DEPTH)}]

\* stmt_update_expired releasing at the expiry height itself.
UpdateExpiredAtHeight(db, last_height) ==
    [db EXCEPT !.received_notes =
        [i \in DOMAIN @ |->
            IF /\ @[i].spent # Null
               /\ db.transactions[@[i].spent].block = Null
               /\ db.transactions[@[i].spent].expiry_height # Null
               /\ db.transactions[@[i].spent].expiry_height <= last_height
            THEN [@[i] EXCEPT !.spent = Null]
            ELSE @[i]]]

\* stmt_update_expired (lib.rs:572-577, 735-736)
UpdateExpired(db, last_height) ==
    [db EXCEPT !.received_notes =
        [i \in DOMAIN @ |->
            IF /\ @[i].spent # Null
               /\ @[i].spent \in DOMAIN db.transactions
               /\ db.transactions[@[i].spent].block = Null
               /\ db.transactions[@[i].spent].expiry_height # Null
               /\ db.transactions[@[i].spent].expiry_height < last_height
            THEN [@[i] EXCEPT !.spent = Null]
            ELSE @[i]]]

(***************************************************************************)
(* get_balance (lib.rs:401-412): SELECT SUM(value) FROM received_notes     *)
(* WHERE account = ? AND spent IS NULL, and 0 for no row.                  *)
(***************************************************************************)
RECURSIVE SumValue(_, _, _)
SumValue(notes, i, account) ==
    IF i > Len(notes) THEN 0
    ELSE (IF notes[i].account = account /\ notes[i].spent = Null
          THEN notes[i].value ELSE 0) + SumValue(notes, i + 1, account)

get_balance(notes, account) == SumValue(notes, 1, account)

\* ANCHOR_OFFSET (lib.rs:44)
ANCHOR_OFFSET == 10

\* The anchor taken ANCHOR_OFFSET below the target whatever the first
\* scanned height.
anchor_without_minimum(blks) ==
    IF DOMAIN blks = {} THEN [ok |-> FALSE, target_height |-> Null, anchor_height |-> Null]
    ELSE LET target_height == SetMax(DOMAIN blks) + 1
         IN [ok |-> TRUE, target_height |-> target_height,
             anchor_height |-> Max(target_height - ANCHOR_OFFSET, 0)]

\* get_target_and_anchor_heights (lib.rs:132-155); heights are u32, the
\* subtraction saturates at 0.  Not ok is Err(ScanRequired).
get_target_and_anchor_heights(blks) ==
    IF DOMAIN blks = {} THEN [ok |-> FALSE, target_height |-> Null, anchor_height |-> Null]
    ELSE LET min_height == SetMin(DOMAIN blks)
             max_height == SetMax(DOMAIN blks)
             target_height == max_height + 1
         IN [ok |-> TRUE, target_height |-> target_height,
             anchor_height |-> Max(Max(target_height - ANCHOR_OFFSET, 0), min_height)]

\* SELECT SUM(value) FROM received_notes INNER JOIN transactions
\* ON transactions.id_tx = received_notes.tx
\* WHERE account = ? AND spent IS NULL AND transactions.block <= ?
RECURSIVE SumVerified(_, _, _, _)
SumVerified(db, i, account, anchor_height) ==
    IF i > Len(db.received_notes) THEN 0
    ELSE LET note == db.received_notes[i]
             joined == note.tx \in DOMAIN db.transactions
         IN (IF /\ joined
                /\ note.account = account
                /\ note.spent = Null
                /\ db.transactions[note.tx].block # Null
                /\ db.transactions[note.tx].block <= anchor_height
             THEN note.value ELSE 0)
            + SumVerified(db, i + 1, account, anchor_height)

\* Ok(Amount(balance)) of get_verified_balance (lib.rs:437); the balance is
\* in field a.
VerifiedBalance(balance) ==
    [op |-> "get_verified_balance", kind |-> "Ok", a |-> balance, b |-> Null]

(***************************************************************************)
(* What scan_cached_blocks reads before its loop (lib.rs:480-545).         *)
(***************************************************************************)
\* Bytes that CommitmentTree::read does not accept.
UndecodableTree == <<Malformed>>

\* The most recent CommitmentTree (lib.rs:512-523): the stored bytes read
\* back, and a new tree when there is no row.
LoadTree(blks, last_height) ==
    IF last_height \in DOMAIN blks THEN blks[last_height].sapling_tree ELSE EmptyTree

\* A set of witness rows as a sequence, in the order of their notes.
RECURSIVE RowsInOrder(_)
RowsInOrder(rows) ==
    IF rows = {} THEN <<>>
    ELSE LET first == CHOOSE r \in rows : \A q \in rows : r.note <= q.note
         IN <<first>> \o RowsInOrder(rows \ {first})

\* The witnesses stored for the last scanned height (lib.rs:525-535).
LoadWitnesses(wits, last_height) ==
    LET rows == RowsInOrder({w \in wits : w.block = last_height})
    IN [i \in DOMAIN rows |-> [id_note |-> rows[i].note, witness |-> rows[i].witness]]

\* The nullifiers of the unspent notes (lib.rs:537-545).
RECURSIVE LoadNullifiers(_, _)
LoadNullifiers(notes, i) ==
    IF i > Len(notes) THEN <<>>
    ELSE IF notes[i].spent = Null
    THEN <<<<notes[i].nf, notes[i].account>>>> \o LoadNullifiers(notes, i + 1)
    ELSE LoadNullifiers(notes, i + 1)


(***************************************************************************)
(* The scan pass.  pass.pc is where the call stands: "read_accounts",      *)
(* "read_tree", "read_witnesses", "read_nullifiers" before the statements  *)
(* that load the state of the pass, each a transaction of its own, the     *)
(* keys of the accounts table among them (pass.extfvks); "loop" between two *)
(* blocks; and "insert_block", "txs", "witnesses", "commit" inside the SQL *)
(* transaction of a block, whose tables are pass.txn.                      *)
(***************************************************************************)
ScanPcs == {"read_accounts", "read_tree", "read_witnesses", "read_nullifiers", "loop",
            "insert_block", "txs", "witnesses", "commit"}

\* A scan_cached_blocks call is in progress.
Scanning == pass.pc \in ScanPcs

\* Where a call stands between its BEGIN IMMEDIATE and its COMMIT: in the
\* loop body of scan_cached_blocks (lib.rs:583-739), in rewind_to_height
\* (chain.rs:188-204) and in init_accounts_table (lib.rs:308-323).
TxnPcs == {"insert_block", "txs", "witnesses", "commit", "rewind_txn", "init_accounts_txn"}

\* The call on the other connection holds the write lock of the data
\* database: a statement of this connection that writes, BEGIN IMMEDIATE
\* included, fails with "database is locked" when the busy timeout ends
\* before the other transaction does.
Locked == peer.pc \in TxnPcs

\* The next row of the query over the cache (lib.rs:493-498, 579).
NextRow == IF CachedAbove(cache, pass.last_height) = {} THEN None
           ELSE cache[SetMin(CachedAbove(cache, pass.last_height))]

\* scan_cached_blocks recalls where it synced up to (lib.rs:477-490):
\* SELECT MAX(height) FROM blocks.
ScanStart ==
    /\ pass = Idle
    /\ ret' = NoRet
    /\ pass' = [pc |-> "read_accounts", debug |-> FALSE,
                last_height |-> LastScannedHeight(blocks), extfvks |-> <<>>,
                tree |-> EmptyTree, witnesses |-> <<>>, nullifiers |-> <<>>,
                block |-> None, txs |-> <<>>, txn |-> None]
    /\ UNCHANGED <<hashed, accounts, cache, reorgs, dbvars, weld, peer>>

\* The ExtendedFullViewingKeys being tracked (lib.rs:500-510): SELECT extfvk
\* FROM accounts ORDER BY account ASC, read once, before the loop.  Every
\* row of the table was encoded by init_accounts_table and decodes.
ScanReadAccounts ==
    /\ pass.pc = "read_accounts"
    /\ ret' = NoRet
    /\ pass' = [pass EXCEPT !.pc = "read_tree", !.extfvks = accounts]
    /\ UNCHANGED <<hashed, accounts, cache, reorgs, dbvars, weld, peer>>

\* The most recent CommitmentTree (lib.rs:511-523): SELECT sapling_tree FROM
\* blocks WHERE height = ?, a statement of its own.
ScanReadTree ==
    /\ pass.pc = "read_tree"
    /\ LET tree == LoadTree(blocks, pass.last_height)
       IN IF tree = UndecodableTree
          THEN /\ ret' = Err("scan", "IO", Null, Null)
               /\ pass' = Idle
          ELSE /\ ret' = NoRet
               /\ pass' = [pass EXCEPT !.pc = "read_witnesses", !.tree = tree]
    /\ UNCHANGED <<hashed, accounts, cache, reorgs, dbvars, weld, peer>>

\* The most recent witnesses (lib.rs:525-535): SELECT note, witness FROM
\* sapling_witnesses WHERE block = ?.
ScanReadWitnesses ==
    /\ pass.pc = "read_witnesses"
    /\ ret' = NoRet
    /\ pass' = [pass EXCEPT !.pc = "read_nullifiers",
                            !.witnesses = LoadWitnesses(sapling_witnesses, pass.last_height)]
    /\ UNCHANGED <<hashed, accounts, cache, reorgs, dbvars, weld, peer>>

\* The nullifiers of the tracked notes (lib.rs:537-545), and the statements
\* of the loop prepared (lib.rs:547-577).  debug is whether the build has
\* debug_assertions.
ScanReadNullifiers ==
    /\ pass.pc = "read_nullifiers"
    /\ ret' = NoRet
    /\ \E debug \in BOOLEAN :
         pass' = [pass EXCEPT !.pc = "loop", !.debug = debug,
                              !.nullifiers = LoadNullifiers(received_notes, 1)]
    /\ UNCHANGED <<hashed, accounts, cache, reorgs, dbvars, weld, peer>>

\* The roots check of a debug build (lib.rs:606-630): the error, or None.
RootsCheck(tree, witnesses, txs, last_height) ==
    LET cur_root == TreeRoot(tree)
        bad == {i \in DOMAIN witnesses : WitnessRoot(witnesses[i].witness) # cur_root}
        badnew == UNION {{<<k, i>> : i \in {j \in DOMAIN txs[k].new_witnesses :
                                      WitnessRoot(txs[k].new_witnesses[j]) # cur_root}} :
                            k \in DOMAIN txs}
    IN IF bad # {}
       THEN Err("scan", "InvalidWitnessAnchor", witnesses[SetMin(bad)].id_note, last_height)
       ELSE IF badnew # {}
       THEN LET k == SetMin({p[1] : p \in badnew})
                i == SetMin({p[2] : p \in {q \in badnew : q[1] = k}})
            IN Err("scan", "InvalidNewWitnessAnchor",
                   txs[k].tx.shielded_outputs[i].index, txs[k].tx.txid)
       ELSE None

\* Scanned blocks MUST be height-sequential (lib.rs:585-586).
HeightSequentialLoose(row_height, last_height) == row_height > last_height
HeightSequential(row_height, last_height) == row_height = last_height + 1

\* The head of the loop body (lib.rs:579-630): BEGIN IMMEDIATE, the height
\* check, scan_block with the keys read before the loop, and in a debug
\* build the roots check.
ScanBlockBegin ==
    /\ pass.pc = "loop"
    /\ NextRow # None
    /\ LET row == NextRow
           witness_refs == [i \in DOMAIN pass.witnesses |-> pass.witnesses[i].witness]
           r == scan_block(row, pass.extfvks, pass.nullifiers, pass.tree, witness_refs)
           witnesses == [i \in DOMAIN pass.witnesses |->
                           [pass.witnesses[i] EXCEPT !.witness = r.existing_witnesses[i]]]
           check == RootsCheck(r.tree, witnesses, r.wtxs, row.height)
       IN
       IF Locked
       THEN /\ ret' = Err("scan", "Database", Null, Null)
            /\ pass' = Idle
       \* Scanned blocks MUST be height-sequential.
       ELSE IF ~HeightSequential(row.height, pass.last_height)
       THEN /\ ret' = Err("scan", "InvalidHeight", pass.last_height + 1, row.height)
            /\ pass' = Idle
       ELSE IF r.panic
       THEN /\ ret' = Err("scan", "panic", Null, Null)
            /\ pass' = Idle
       ELSE IF pass.debug /\ check # None
       THEN /\ ret' = check
            /\ pass' = Idle
       ELSE /\ ret' = NoRet
            /\ pass' = [pass EXCEPT !.pc = "insert_block", !.last_height = row.height,
                                    !.tree = r.tree, !.witnesses = witnesses,
                                    !.block = row, !.txs = r.wtxs, !.txn = DB]
    /\ UNCHANGED <<hashed, accounts, cache, reorgs, dbvars, weld, peer>>

\* A statement of the open transaction fails: the error is returned, the
\* connection is dropped and the transaction rolled back.
Fail == /\ ret' = Err("scan", "Database", Null, Null)
        /\ pass' = Idle

\* Insert the block into the database (lib.rs:632-640).
ScanInsertBlock ==
    /\ pass.pc = "insert_block"
    /\ LET r == InsertBlock(pass.txn, pass.last_height, pass.tree)
       IN IF r.failed THEN Fail
          ELSE /\ pass' = [pass EXCEPT !.pc = "txs", !.txn = r.db]
               /\ ret' = NoRet
    /\ UNCHANGED <<hashed, accounts, cache, reorgs, dbvars, weld, peer>>

\* The transactions of the block, their spends and their notes (lib.rs:642-715).
ScanPersistTxs ==
    /\ pass.pc = "txs"
    /\ LET r == PersistTxs([db |-> pass.txn, witnesses |-> pass.witnesses,
                            nullifiers |-> pass.nullifiers, failed |-> FALSE],
                           pass.last_height, pass.txs, 1)
       IN IF r.failed THEN Fail
          ELSE /\ pass' = [pass EXCEPT !.pc = "witnesses", !.txn = r.db,
                                       !.witnesses = r.witnesses,
                                       !.nullifiers = r.nullifiers]
               /\ ret' = NoRet
    /\ UNCHANGED <<hashed, accounts, cache, reorgs, dbvars, weld, peer>>

\* The witnesses of this height, the pruning and the expiry (lib.rs:717-736).
ScanPersistWitnesses ==
    /\ pass.pc = "witnesses"
    /\ LET r == InsertWitnesses(pass.txn, pass.witnesses, pass.last_height)
       IN IF r.failed THEN Fail
          ELSE /\ pass' = [pass EXCEPT !.pc = "commit",
                              !.txn = UpdateExpired(PruneWitnesses(r.db, pass.last_height),
                                                    pass.last_height)]
               /\ ret' = NoRet
    /\ UNCHANGED <<hashed, accounts, cache, reorgs, dbvars, weld, peer>>

\* COMMIT (lib.rs:738-739): the tables of the transaction become the tables.
CommitTables(txn) ==
    /\ blocks' = txn.blocks
    /\ transactions' = txn.transactions
    /\ received_notes' = txn.received_notes
    /\ sapling_witnesses' = txn.sapling_witnesses

ScanCommit ==
    /\ pass.pc = "commit"
    /\ CommitTables(pass.txn)
    /\ pass' = [pass EXCEPT !.pc = "loop", !.block = None, !.txs = <<>>, !.txn = None]
    /\ ret' = NoRet
    /\ UNCHANGED <<hashed, accounts, cache, reorgs, weld, peer>>

\* The process dies, or a statement returns an I/O error, between BEGIN
\* IMMEDIATE and COMMIT: the open transaction is rolled back.
ScanAbort ==
    /\ pass.pc \in {"insert_block", "txs", "witnesses", "commit"}
    /\ Fail
    /\ UNCHANGED <<hashed, accounts, cache, reorgs, dbvars, weld, peer>>

\* The query over the cache is exhausted: Ok(()) (lib.rs:740-742).
ScanFinish ==
    /\ pass.pc = "loop"
    /\ NextRow = None
    /\ pass' = Idle
    /\ ret' = Ok("scan")
    /\ UNCHANGED <<hashed, accounts, cache, reorgs, dbvars, weld, peer>>

(***************************************************************************)
(* The other calls.                                                        *)
(***************************************************************************)
\* The check of init_accounts_table (lib.rs:302-305): SELECT * FROM accounts
\* LIMIT 1 finds a row.
empty_check_skipped(accts) == FALSE
empty_check(accts) == accts # <<>>

\* The inserts of init_accounts_table (lib.rs:309-322): account i of the
\* table is the i-th key of the list, and account is the PRIMARY KEY.
InsertAccounts(accts, extfvks) ==
    IF extfvks = <<>> THEN [accounts |-> accts, failed |-> FALSE]
    ELSE IF accts # <<>> THEN [accounts |-> accts, failed |-> TRUE]
    ELSE [accounts |-> extfvks, failed |-> FALSE]

\* init_accounts_table up to its check (lib.rs:296-305), and TableNotEmpty
\* when there is a row.
InitAccountsTable(keylists) ==
    /\ pass = Idle
    /\ \E extfvks \in keylists :
         IF empty_check(accounts)
         THEN /\ ret' = Err("init_accounts", "TableNotEmpty", Null, Null)
              /\ pass' = Idle
         ELSE /\ ret' = NoRet
              /\ pass' = [pc |-> "init_accounts_begin", extfvks |-> extfvks]
    /\ UNCHANGED <<hashed, accounts, cache, reorgs, dbvars, weld, peer>>

\* BEGIN IMMEDIATE of init_accounts_table (lib.rs:308).
InitAccountsBegin ==
    /\ pass.pc = "init_accounts_begin"
    /\ IF Locked
       THEN /\ ret' = Err("init_accounts", "Database", Null, Null)
            /\ pass' = Idle
       ELSE /\ ret' = NoRet
            /\ pass' = [pass EXCEPT !.pc = "init_accounts_txn"]
    /\ UNCHANGED <<hashed, accounts, cache, reorgs, dbvars, weld, peer>>

\* The inserts and the COMMIT (lib.rs:309-325); an insert that fails
\* returns the error and the transaction is rolled back.
InitAccountsCommit ==
    /\ pass.pc = "init_accounts_txn"
    /\ pass' = Idle
    /\ LET r == InsertAccounts(accounts, pass.extfvks)
       IN /\ accounts' = r.accounts
          /\ ret' = IF r.failed THEN Err("init_accounts", "Database", Null, Null)
                    ELSE Ok("init_accounts")
    /\ UNCHANGED <<hashed, cache, reorgs, dbvars, weld, peer>>

\* A statement of the open transaction, the COMMIT included, fails: `?`
\* returns the error and the transaction is rolled back.
InitAccountsAbort ==
    /\ pass.pc = "init_accounts_txn"
    /\ ret' = Err("init_accounts", "Database", Null, Null)
    /\ pass' = Idle
    /\ UNCHANGED <<hashed, accounts, cache, reorgs, dbvars, weld, peer>>

InitAccountsStep(keylists) ==
    InitAccountsTable(keylists) \/ InitAccountsBegin \/ InitAccountsCommit
    \/ InitAccountsAbort

\* The lists of keys init_accounts_table is called with.
KeyLists == SeqsUpTo(Keys, NumAccounts)

\* init_blocks_table up to its check (lib.rs:348-359): SELECT * FROM blocks
\* LIMIT 1, and TableNotEmpty when there is a row.
InitBlocksTable(heights, trees) ==
    /\ pass = Idle
    /\ \E height \in heights, sapling_tree \in trees :
         IF DOMAIN blocks # {}
         THEN /\ ret' = Err("init_blocks", "TableNotEmpty", Null, Null)
              /\ pass' = Idle
         ELSE /\ ret' = NoRet
              /\ pass' = [pc |-> "init_insert", height |-> height,
                          sapling_tree |-> sapling_tree]
    /\ UNCHANGED <<hashed, accounts, cache, reorgs, dbvars, weld, peer>>

\* The insert of init_blocks_table (lib.rs:361-367), a statement of its own
\* that commits by itself; the sapling_tree bytes are stored as they are
\* given, and height is the PRIMARY KEY.  busy: the statement fails for the
\* database being locked by a reader on another connection, or for an I/O
\* error.
InitBlocksInsert ==
    /\ pass.pc = "init_insert"
    /\ pass' = Idle
    /\ \E busy \in BOOLEAN :
       IF busy \/ Locked \/ pass.height \in DOMAIN blocks
       THEN /\ ret' = Err("init_blocks", "Database", Null, Null)
            /\ UNCHANGED blocks
       ELSE /\ ret' = Ok("init_blocks")
            /\ blocks' = (pass.height :> BlockRow(pass.sapling_tree)) @@ blocks
    /\ UNCHANGED <<hashed, accounts, cache, reorgs, transactions, received_notes, sapling_witnesses, weld, peer>>

\* validate_combined_chain recalls where the wallet synced up to
\* (chain.rs:85-101): SELECT MAX(height) FROM blocks.
Validate ==
    /\ pass = Idle
    /\ ret' = NoRet
    /\ pass' = [pc |-> "validate_rows", last_scanned_height |-> LastScannedHeight(blocks)]
    /\ UNCHANGED <<hashed, accounts, cache, reorgs, dbvars, weld, peer>>

\* The query over the cache and the walk over its rows (chain.rs:103-146).
ValidateRows ==
    /\ pass.pc = "validate_rows"
    /\ LET walk == ValidateCached(cache, pass.last_scanned_height)
       IN IF "kind" \in DOMAIN walk
          THEN /\ ret' = walk
               /\ pass' = Idle
          ELSE /\ ret' = NoRet
               /\ pass' = [pc |-> "validate_link",
                           last_scanned_height |-> pass.last_scanned_height,
                           last_prev_hash |-> walk.prev_hash]
    /\ UNCHANGED <<hashed, accounts, cache, reorgs, dbvars, weld, peer>>

\* The call rewinding the data database by itself when it cannot link the
\* cached blocks to the last scanned one.
ValidateAndRewind ==
    /\ pass.pc = "validate_link"
    /\ LET r == ValidateLink(blocks, pass.last_scanned_height, pass.last_prev_hash)
       IN /\ ret' = r
          /\ IF r.kind # "Ok"
             THEN CommitTables(rewind_to_height(DB, pass.last_scanned_height - 1))
             ELSE UNCHANGED dbvars
    /\ pass' = Idle
    /\ UNCHANGED <<hashed, accounts, cache, reorgs, weld, peer>>

\* The hash of the last scanned block, a statement of its own, and the
\* comparison (chain.rs:148-162).
ValidateHash ==
    /\ pass.pc = "validate_link"
    /\ ret' = ValidateLink(blocks, pass.last_scanned_height, pass.last_prev_hash)
    /\ pass' = Idle
    /\ UNCHANGED <<hashed, accounts, cache, reorgs, dbvars, weld, peer>>

ValidateStep == Validate \/ ValidateRows \/ ValidateHash

\* The heights rewind_to_height is called with.
RewindHeights == (SAPLING_ACTIVATION_HEIGHT - 1) .. (SAPLING_ACTIVATION_HEIGHT + MaxBlocks - 1)

\* rewind_to_height recalls where the wallet synced up to
\* (chain.rs:169-185): SELECT MAX(height) FROM blocks, and nothing to do
\* for a height that is not below it.
RewindTo(heights) ==
    /\ pass = Idle
    /\ \E height \in heights :
         IF height >= LastScannedHeight(blocks)
         THEN /\ ret' = Ok("rewind")
              /\ pass' = Idle
         ELSE /\ ret' = NoRet
              /\ pass' = [pc |-> "rewind_begin", height |-> height]
    /\ UNCHANGED <<hashed, accounts, cache, reorgs, dbvars, weld, peer>>

\* Start an SQL transaction for rewinding (chain.rs:188): BEGIN IMMEDIATE.
RewindBegin ==
    /\ pass.pc = "rewind_begin"
    /\ IF Locked
       THEN /\ ret' = Err("rewind", "Database", Null, Null)
            /\ pass' = Idle
       ELSE /\ ret' = NoRet
            /\ pass' = [pass EXCEPT !.pc = "rewind_txn"]
    /\ UNCHANGED <<hashed, accounts, cache, reorgs, dbvars, weld, peer>>

\* The three statements of the transaction and its COMMIT
\* (chain.rs:191-206).
RewindCommit ==
    /\ pass.pc = "rewind_txn"
    /\ CommitTables(rewind_to_height(DB, pass.height))
    /\ ret' = Ok("rewind")
    /\ pass' = Idle
    /\ UNCHANGED <<hashed, accounts, cache, reorgs, weld, peer>>

\* A statement of the open transaction, the COMMIT included, fails (the
\* database is locked by a reader on another connection, or an I/O error):
\* `?` returns the error, the connection is dropped and the transaction
\* rolled back.
RewindAbort ==
    /\ pass.pc = "rewind_txn"
    /\ ret' = Err("rewind", "Database", Null, Null)
    /\ pass' = Idle
    /\ UNCHANGED <<hashed, accounts, cache, reorgs, dbvars, weld, peer>>

RewindStep(heights) == RewindTo(heights) \/ RewindBegin \/ RewindCommit \/ RewindAbort

\* get_verified_balance up to the anchor (lib.rs:424-427):
\* get_target_and_anchor_heights, SELECT MIN(height), MAX(height) FROM
\* blocks, and ScanRequired when there is no block.
GetVerifiedBalance(accts) ==
    /\ pass = Idle
    /\ \E account \in accts :
         LET heights == get_target_and_anchor_heights(blocks)
         IN IF ~heights.ok
            THEN /\ ret' = Err("get_verified_balance", "ScanRequired", Null, Null)
                 /\ pass' = Idle
            ELSE /\ ret' = NoRet
                 /\ pass' = [pc |-> "verified_sum", account |-> account,
                             anchor_height |-> heights.anchor_height]
    /\ UNCHANGED <<hashed, accounts, cache, reorgs, dbvars, weld, peer>>

\* The sum of get_verified_balance (lib.rs:429-437), a statement of its own,
\* on the tables as they are when it runs.
GetVerifiedBalanceSum ==
    /\ pass.pc = "verified_sum"
    /\ ret' = VerifiedBalance(SumVerified(DB, 1, pass.account, pass.anchor_height))
    /\ pass' = Idle
    /\ UNCHANGED <<hashed, accounts, cache, reorgs, dbvars, weld, peer>>

GetVerifiedBalanceStep(accts) == GetVerifiedBalance(accts) \/ GetVerifiedBalanceSum

Rewind == RewindStep(RewindHeights)

(***************************************************************************)
(* The cache database is written by the downloader.                        *)
(***************************************************************************)
CachePut(block) ==
    /\ pass = Idle
    /\ cache[block.height] = None
    /\ cache' = [cache EXCEPT ![block.height] = block]
    /\ ret' = NoRet
    /\ UNCHANGED <<hashed, accounts, reorgs, dbvars, pass, weld, peer>>

\* Delete cached blocks from a height onwards (chain.rs:33).
CacheDeleteFrom ==
    /\ pass = Idle
    /\ reorgs < MaxReorgs
    /\ reorgs' = reorgs + 1
    /\ \E height \in Heights :
         /\ CachedAbove(cache, height - 1) # {}
         /\ cache' = [h \in Heights |-> IF h >= height THEN None ELSE cache[h]]
    /\ ret' = NoRet
    /\ UNCHANGED <<hashed, accounts, dbvars, pass, weld, peer>>

ScanStep ==
    \/ ScanStart
    \/ ScanReadAccounts
    \/ ScanReadTree
    \/ ScanReadWitnesses
    \/ ScanReadNullifiers
    \/ ScanBlockBegin
    \/ ScanInsertBlock
    \/ ScanPersistTxs
    \/ ScanPersistWitnesses
    \/ ScanCommit
    \/ ScanAbort
    \/ ScanFinish


(***************************************************************************)
(* The blocks the downloader may deposit.                                  *)
(***************************************************************************)
Owned(cmu, account, value) ==
    [cmu |-> cmu, epk |-> ValidEpk, ciphertext |-> [keys |-> {account}, value |-> value]]
Foreign(cmu) ==
    [cmu |-> cmu, epk |-> ValidEpk, ciphertext |-> [keys |-> {}, value |-> 1]]
BadCmu ==
    [cmu |-> Malformed, epk |-> ValidEpk, ciphertext |-> [keys |-> {}, value |-> 1]]
Tx(txid, index, spends, outputs) ==
    [hash |-> txid, index |-> index, spends |-> spends, outputs |-> outputs]

\* Transaction lists for the scanner: a payment to account 0; a payment to
\* account 0 followed by a foreign transaction; a spend of the note at leaf
\* 0 with a foreign output and change; a malformed output followed by a
\* payment to account 1.
ScanVtxs ==
    {<<Tx(1, 0, <<>>, <<Owned(1, 0, 5)>>)>>,
     <<Tx(2, 0, <<>>, <<Owned(1, 0, 5)>>), Tx(3, 1, <<>>, <<Foreign(2)>>)>>,
     <<Tx(4, 0, <<NoteNf(1, 0, 0)>>, <<Foreign(2), Owned(2, 0, 3)>>)>>,
     <<Tx(5, 0, <<>>, <<BadCmu, Owned(2, 1, 7)>>)>>}

\* Blocks with contents, all carrying the same hash (hash-linked).
ScanBlocks ==
    {[height |-> h, hash |-> 1, prev_hash |-> 1, vtx |-> vtx] :
        h \in Heights, vtx \in ScanVtxs}

\* Blocks without transactions, with any hash and any previous hash.
ChainBlocks ==
    {[height |-> h, hash |-> hash, prev_hash |-> prev, vtx |-> <<>>] :
        h \in Heights, hash \in Hashes, prev \in Hashes}

Init == InitWallet /\ weld = NoWeld

Next ==
    \/ \E block \in ScanBlocks : CachePut(block)
    \/ CacheDeleteFrom
    \/ InitBlocksTable({SAPLING_ACTIVATION_HEIGHT}, {EmptyTree})
    \/ InitBlocksInsert
    \/ ScanStep
    \/ Rewind

Spec == Init /\ [][Next]_vars

NextChain ==
    \/ \E block \in ChainBlocks : CachePut(block)
    \/ CacheDeleteFrom
    \/ InitBlocksTable(Heights, {EmptyTree})
    \/ InitBlocksInsert
    \/ ScanStep
    \/ ValidateStep
    \/ Rewind

SpecChain == Init /\ [][NextChain]_vars


(***************************************************************************)
(* Properties of scan_cached_blocks.                                       *)
(***************************************************************************)
\* Nothing of a block without a row in blocks is in the tables: no witness
\* row and no mined transaction stands at its height, every received note
\* is that of a transaction mined in a block with a row, and every spent
\* mark is that of a transaction mined in a block with a row.
NothingOfUnpersistedBlock ==
    /\ \A h \in Heights \ DOMAIN blocks :
          /\ \A w \in sapling_witnesses : w.block # h
          /\ \A t \in DOMAIN transactions : transactions[t].block # h
    /\ \A n \in DOMAIN received_notes :
          /\ transactions[received_notes[n].tx].block \in DOMAIN blocks
          /\ received_notes[n].spent # Null =>
                transactions[received_notes[n].spent].block \in DOMAIN blocks

\* Every effect of the block the pass stands in is in the tables after the
\* step: its row with the tree after it, its transactions mined at its
\* height, their discovered notes, the spends they mark, a witness row at
\* its height for every tracked note, the pruning, and the release of the
\* notes whose spender is unmined and expired below its height.
BlockEffectsAfterStep ==
    LET h == pass.last_height
    IN /\ h \in DOMAIN blocks'
       /\ blocks'[h] = BlockRow(pass.tree)
       /\ \A i \in DOMAIN pass.witnesses :
             [note |-> pass.witnesses[i].id_note, block |-> h,
              witness |-> pass.witnesses[i].witness] \in sapling_witnesses'
       /\ \A w \in sapling_witnesses' : w.block >= h - PRUNE_DEPTH
       /\ \A k \in DOMAIN pass.txs :
             LET tx == pass.txs[k].tx
             IN \E t \in DOMAIN transactions' :
                  /\ transactions'[t].txid = tx.txid
                  /\ transactions'[t].block = h
                  /\ transactions'[t].tx_index = tx.index
                  /\ \A o \in DOMAIN tx.shielded_outputs :
                        \E n \in DOMAIN received_notes' :
                            /\ received_notes'[n].tx = t
                            /\ received_notes'[n].output_index = tx.shielded_outputs[o].index
                            /\ received_notes'[n].account = tx.shielded_outputs[o].account
                            /\ received_notes'[n].value = tx.shielded_outputs[o].value
                            /\ received_notes'[n].is_change = tx.shielded_outputs[o].is_change
                  /\ \A sp \in DOMAIN tx.shielded_spends :
                        \A n \in DOMAIN received_notes' :
                            received_notes'[n].nf = tx.shielded_spends[sp].nf
                                => received_notes'[n].spent = t
       /\ \A n \in DOMAIN received_notes :
             LET before == received_notes[n].spent
             IN (/\ before # Null
                 /\ transactions'[before].block = Null
                 /\ transactions'[before].expiry_height # Null
                 /\ transactions'[before].expiry_height < h)
                   => received_notes'[n].spent = Null

\* The part the code keeps: the scan changes the tables only by the COMMIT
\* of a block, with all the effects of the block.
ScanCommitsWholeBlocks ==
    [][(Scanning /\ dbvars' # dbvars)
          => (pass.pc = "commit" /\ BlockEffectsAfterStep)]_vars

\* C3: each cached block is persisted atomically.  In every state of the
\* tables a call can see, the effects of a block (witness rows, mined
\* transactions, received notes, spent marks) are there only with its row
\* in blocks; while a scan pass runs, the tables change in one step only,
\* the COMMIT of a block, and that step brings the row of the block together
\* with all of its effects; a pass that stops between BEGIN and COMMIT
\* leaves the tables as they were.
C3_AtomicBlockPersistence ==
    /\ []NothingOfUnpersistedBlock
    /\ ScanCommitsWholeBlocks

\* C4: a cached block whose height is not the last scanned height + 1 (the
\* lowest one of the pass, or any later one) makes the pass return
\* InvalidHeight(last + 1, height of the block); the tables keep the blocks
\* persisted before it and get nothing of it or of a higher block.
C4_SequentialHeights ==
    [][(/\ pass.pc = "loop"
        /\ NextRow # None
        /\ NextRow.height # LastScannedHeight(blocks) + 1)
          => /\ ret' = Err("scan", "InvalidHeight",
                           LastScannedHeight(blocks) + 1, NextRow.height)
             /\ pass' = Idle
             /\ dbvars' = dbvars
             /\ \A h \in DOMAIN blocks' : h < NextRow.height]_vars

\* A pass persisted a block and then stopped with InvalidHeight at a gap.
C4_Witness ==
    /\ ret.op = "scan"
    /\ ret.kind = "InvalidHeight"
    /\ ret.a = LastScannedHeight(blocks) + 1
    /\ ret.b > ret.a
    /\ DOMAIN blocks # {}
    /\ received_notes # <<>>


(***************************************************************************)
(* Properties of validate_combined_chain.  ret holds the result of the     *)
(* call on the cache and the tables of the same state.                     *)
(***************************************************************************)
Validated == ret.op = "validate"
InvalidChain(h) == Err("validate", "InvalidChain", h, Null)

\* The cached heights above the last scanned height.
CachedRows == CachedAbove(cache, LastScannedHeight(blocks))

\* Every height of lo..hi is cached.
CachedRun(lo, hi) == \A k \in lo..hi : k \in Heights /\ cache[k] # None

\* Every block of lo..hi-1 is the one the block above it names as previous.
LinkedRun(lo, hi) == \A k \in lo..(hi - 1) : cache[k].hash = cache[k + 1].prev_hash

\* C5: when the cached blocks from h + 1 up to the top are consecutive and
\* linked, and the cached block at h above the last scanned height does not
\* have the hash that the block at h + 1 names as previous, the call returns
\* InvalidChain(h): the lower block of the broken link.  InvalidChain(h)
\* above the last scanned height is returned in this case only.  With
\* consecutive heights from the last scanned block up and correct links
\* throughout, the call returns Ok, or InvalidChain(H) for a lowest cached
\* block that does not name the last scanned block H as previous.
C5_CacheLinkage ==
    Validated /\ CachedRows # {} =>
        LET top == SetMax(CachedRows)
            low == SetMin(CachedRows)
            H == LastScannedHeight(blocks)
        IN /\ \A h \in CachedRows :
                 (/\ h < top
                  /\ CachedRun(h, top)
                  /\ LinkedRun(h + 1, top)
                  /\ cache[h].hash # cache[h + 1].prev_hash)
                 <=> ret = InvalidChain(h)
           /\ (/\ CachedRun(H + 1, top)
               /\ LinkedRun(low, top)
               /\ H \in DOMAIN blocks)
              => ret \in {Ok("validate"), InvalidChain(H)}

\* Three consecutive cached blocks above the last scanned one, the link
\* between the upper two intact and between the lower two broken: the call
\* named the middle height.
C5_Witness ==
    /\ Validated
    /\ LastScannedHeight(blocks) = SAPLING_ACTIVATION_HEIGHT - 1
    /\ CachedRows = Heights
    /\ LinkedRun(SAPLING_ACTIVATION_HEIGHT + 1, SAPLING_ACTIVATION_HEIGHT + 2)
    /\ ret = InvalidChain(SAPLING_ACTIVATION_HEIGHT)

\* C6: when the call returns Ok over a non-empty set of cached blocks above
\* the last scanned height H, these are exactly H + 1 .. top and each is
\* linked to the one below it.
C6_OkMeansSequentialFromScanned ==
    Validated /\ CachedRows # {} /\ ret = Ok("validate") =>
        LET top == SetMax(CachedRows)
            H == LastScannedHeight(blocks)
        IN /\ CachedRows = (H + 1)..top
           /\ LinkedRun(H + 1, top)

\* C7: when the walk over the cached blocks completes (consecutive heights,
\* correct links) and the last scanned height H has a row in blocks, the
\* call compares the prev_hash of the lowest cached block above H with the
\* hash persisted at H: it returns InvalidChain(H) or Ok, and nothing else.
C7_LinkToScanned ==
    (/\ Validated
     /\ CachedRows # {}
     /\ CachedRun(SetMin(CachedRows), SetMax(CachedRows))
     /\ LinkedRun(SetMin(CachedRows), SetMax(CachedRows))
     /\ LastScannedHeight(blocks) \in DOMAIN blocks) =>
        ret \in {InvalidChain(LastScannedHeight(blocks)), Ok("validate")}

\* C8: with no block in the data database and a consecutive, linked run of
\* cached blocks from Sapling activation up, the call returns Ok.
C8_FirstSyncAccepted ==
    (/\ Validated
     /\ DOMAIN blocks = {}
     /\ CachedRows # {}
     /\ CachedRun(SAPLING_ACTIVATION_HEIGHT, SetMax(CachedRows))
     /\ LinkedRun(SAPLING_ACTIVATION_HEIGHT, SetMax(CachedRows)))
        => ret = Ok("validate")

(***************************************************************************)
(* Properties of rewind_to_height, for every height it may be called with  *)
(* on the tables of every state.                                           *)
(***************************************************************************)
\* The tables `after` are what the claim says of a rewind to h of the
\* tables `before`.
RewoundTo(before, after, h) ==
    /\ after.sapling_witnesses = {w \in before.sapling_witnesses : w.block <= h}
    /\ DOMAIN after.blocks = {x \in DOMAIN before.blocks : x <= h}
    /\ \A x \in DOMAIN after.blocks : after.blocks[x] = before.blocks[x]
    /\ DOMAIN after.transactions = DOMAIN before.transactions
    /\ \A t \in DOMAIN before.transactions :
          IF before.transactions[t].block # Null /\ before.transactions[t].block > h
          THEN after.transactions[t] =
                 [before.transactions[t] EXCEPT !.block = Null, !.tx_index = Null]
          ELSE after.transactions[t] = before.transactions[t]
    /\ after.received_notes = before.received_notes

\* The tables after the step.
DBAfterStep == [blocks |-> blocks', transactions |-> transactions',
                received_notes |-> received_notes',
                sapling_witnesses |-> sapling_witnesses']

\* The steps of a rewind_to_height call that end it with an error.
RewindFails ==
    /\ ret' = Err("rewind", "Database", Null, Null)
    /\ RewindBegin \/ RewindAbort

\* C9: for h below the last scanned height, after the call no witness row
\* has block > h, every transaction that had block > h is kept with block
\* and tx_index NULL, no row of blocks has height > h, and every row at or
\* below h of the three tables is as it was; the tables change in one step,
\* the COMMIT, and no other step of the call, a failing one included,
\* changes a table.
C9_RewindEffect ==
    /\ [](\A h \in RewindHeights :
            h < LastScannedHeight(blocks) =>
                RewoundTo(DB, rewind_to_height(DB, h), h))
    /\ [][RewindCommit =>
            /\ pass.height < LastScannedHeight(blocks)
            /\ ret' = Ok("rewind")
            /\ RewoundTo(DB, DBAfterStep, pass.height)]_vars
    /\ [][(RewindTo(RewindHeights) \/ RewindBegin \/ RewindAbort) =>
            UNCHANGED dbvars]_vars

\* A rewind has un-mined a transaction and left blocks that a further rewind
\* would remove, together with a mined transaction and a witness row.
C9_Witness ==
    /\ ret = Ok("rewind")
    /\ \E t \in DOMAIN transactions : transactions[t].block = Null
    /\ \E t \in DOMAIN transactions : transactions[t].block = LastScannedHeight(blocks)
    /\ \E w \in sapling_witnesses : w.block = LastScannedHeight(blocks)
    /\ \E h \in RewindHeights : h < LastScannedHeight(blocks) /\ h \in DOMAIN blocks

\* C10: a call with a height at or above the last scanned height, that of
\* an empty blocks table included, returns Ok at once and leaves the tables
\* as they are; a call that returns Ok after its transaction leaves the
\* last scanned height at or below the height it was given, so that a
\* second call with the same height is of the first kind; a call that fails
\* leaves the tables as they are; and rewinding the rewound tables to the
\* same height changes nothing.
C10_RewindIdempotent ==
    /\ [](\A h \in RewindHeights :
            LET once == rewind_to_height(DB, h)
            IN /\ rewind_to_height(once, h) = once
               /\ LastScannedHeight(once.blocks) <= Max(h, SAPLING_ACTIVATION_HEIGHT - 1)
               /\ h >= LastScannedHeight(blocks) => once = DB)
    /\ [][RewindTo(RewindHeights) =>
            /\ UNCHANGED dbvars
            /\ \/ pass' = Idle /\ ret' = Ok("rewind")
               \/ /\ pass'.pc = "rewind_begin"
                  /\ pass'.height < LastScannedHeight(blocks)
                  /\ ret' = NoRet]_vars
    /\ [][RewindCommit =>
            /\ ret' = Ok("rewind")
            /\ DBAfterStep = rewind_to_height(DB, pass.height)
            /\ LastScannedHeight(blocks') <= pass.height]_vars
    /\ [][RewindFails => UNCHANGED dbvars /\ pass' = Idle]_vars

\* Two scanned blocks with a witness row stand above the lowest height a
\* rewind can name, and a rewind has returned.
C10_Witness ==
    /\ ret = Ok("rewind")
    /\ Cardinality(DOMAIN blocks) >= 2
    /\ sapling_witnesses # {}
    /\ \E t \in DOMAIN transactions : transactions[t].block = Null

(***************************************************************************)
(* Properties of the note state.                                           *)
(***************************************************************************)
\* The height a transaction row is mined at, or Null.
MinedAt(t) == IF t \in DOMAIN transactions THEN transactions[t].block ELSE Null

\* The notes that were unspent right after the block at h was committed:
\* received by a transaction mined at or below h, and not spent by a
\* transaction mined at or below h.
UnspentAsOf(h) ==
    {n \in DOMAIN received_notes :
        /\ MinedAt(received_notes[n].tx) # Null
        /\ MinedAt(received_notes[n].tx) <= h
        /\ \/ received_notes[n].spent = Null
           \/ MinedAt(received_notes[n].spent) = Null
           \/ MinedAt(received_notes[n].spent) > h}

RECURSIVE SumOver(_, _)
SumOver(notes, S) ==
    IF S = {} THEN 0
    ELSE LET n == CHOOSE x \in S : TRUE
         IN notes[n].value + SumOver(notes, S \ {n})

\* C11: after rewind_to_height(h) with h below the last scanned height, the
\* unspent notes are those that were unspent right after block h: the
\* nullifiers the next scan loads, and the balance of every account, are
\* those of the notes received at or below h and not spent at or below h.
C11_RewindDiscardsNotes ==
    \A h \in RewindHeights :
        h < LastScannedHeight(blocks) =>
            LET after == rewind_to_height(DB, h)
                active == LoadNullifiers(after.received_notes, 1)
            IN /\ {active[i] : i \in DOMAIN active}
                    = {<<received_notes[n].nf, received_notes[n].account>> :
                          n \in UnspentAsOf(h)}
               /\ \A a \in Accounts :
                     get_balance(after.received_notes, a)
                        = SumOver(received_notes,
                                  {n \in UnspentAsOf(h) : received_notes[n].account = a})

(***************************************************************************)
(* Properties of scan_block on its own.  The transaction of the block that *)
(* a returned WalletTx was made from is the one whose hash is its txid.    *)
(***************************************************************************)
\* The accounts whose tracked nullifier a spend of the transaction carries.
SpendingAccounts(tx) ==
    {weld.nullifiers[n][2] :
        n \in {m \in DOMAIN weld.nullifiers :
                 \E i \in DOMAIN tx.spends : tx.spends[i] = weld.nullifiers[m][1]}}

\* C12: a note discovered by scan_block is that of the first account whose
\* key decrypts the output, and has is_change = true exactly when a spend of
\* the same transaction carries a tracked nullifier of that account; spends
\* of other transactions of the block and of other accounts do not count.
C12_ChangeDetection ==
    weld.out # None =>
        \A k \in DOMAIN weld.out.wtxs :
            LET wtx == weld.out.wtxs[k].tx
                tx == weld.block.vtx[wtx.txid]
            IN \A o \in DOMAIN wtx.shielded_outputs :
                  LET out == wtx.shielded_outputs[o]
                      keys == tx.outputs[out.index + 1].ciphertext.keys
                  IN /\ out.account \in keys
                     /\ \A a \in keys : out.account <= a
                     /\ out.is_change <=> out.account \in SpendingAccounts(tx)

\* scan_block returned a transaction in which account 0 spent a note, with
\* one output to account 0 marked change and one to account 1 not marked,
\* and another transaction without a spend whose output to account 0 is not
\* marked.
C12_Witness ==
    /\ weld.out # None
    /\ \E k \in DOMAIN weld.out.wtxs :
         LET wtx == weld.out.wtxs[k].tx
         IN /\ wtx.shielded_spends # <<>>
            /\ \E o \in DOMAIN wtx.shielded_outputs :
                  wtx.shielded_outputs[o].account = 0 /\ wtx.shielded_outputs[o].is_change
            /\ \E o \in DOMAIN wtx.shielded_outputs :
                  wtx.shielded_outputs[o].account = 1 /\ ~wtx.shielded_outputs[o].is_change
    /\ \E k \in DOMAIN weld.out.wtxs :
         LET wtx == weld.out.wtxs[k].tx
         IN /\ wtx.shielded_spends = <<>>
            /\ \E o \in DOMAIN wtx.shielded_outputs :
                  wtx.shielded_outputs[o].account = 0 /\ ~wtx.shielded_outputs[o].is_change

\* The spend events scan_block returned for a nullifier: (transaction, spend).
SpendEvents(nf) ==
    {<<k, i>> \in (1..MaxTxs) \X (1..MaxTxs) :
        /\ k \in DOMAIN weld.out.wtxs
        /\ i \in DOMAIN weld.out.wtxs[k].tx.shielded_spends
        /\ weld.out.wtxs[k].tx.shielded_spends[i].nf = nf}

\* C13: a tracked nullifier is matched once: scan_block returns at most one
\* spend event for it over all the transactions of the block, and exactly
\* one, with the index of the spend and the owning account, when a spend of
\* the block carries it.
C13_NullifierMatchedOnce ==
    weld.out # None =>
        \A n \in DOMAIN weld.nullifiers :
            LET nf == weld.nullifiers[n][1]
                carried == \E k \in DOMAIN weld.block.vtx :
                              \E i \in DOMAIN weld.block.vtx[k].spends :
                                  weld.block.vtx[k].spends[i] = nf
            IN /\ Cardinality(SpendEvents(nf)) = (IF carried THEN 1 ELSE 0)
               /\ \A e \in SpendEvents(nf) :
                     LET wtx == weld.out.wtxs[e[1]].tx
                         sp == wtx.shielded_spends[e[2]]
                     IN /\ sp.account = weld.nullifiers[n][2]
                        /\ weld.block.vtx[wtx.txid].spends[sp.index + 1] = nf

\* The commitments of the well-formed outputs of outputs i.. of a
\* transaction, and of transactions k.. of a block, in order.
RECURSIVE WellFormedCmus(_, _)
WellFormedCmus(outputs, i) ==
    IF i > Len(outputs) THEN <<>>
    ELSE (IF outputs[i].cmu # Malformed /\ outputs[i].epk # Malformed
          THEN <<outputs[i].cmu>> ELSE <<>>) \o WellFormedCmus(outputs, i + 1)

RECURSIVE BlockCmus(_, _)
BlockCmus(vtx, k) ==
    IF k > Len(vtx) THEN <<>>
    ELSE WellFormedCmus(vtx[k].outputs, 1) \o BlockCmus(vtx, k + 1)

\* C16: scan_block appends the commitment of every well-formed output once,
\* in block order, to the tree and to every live witness: the tree and every
\* existing witness gain the commitments of the block in order, and every
\* witness created in the block holds the leaves of the tree up to its own
\* note followed by every commitment after it.
C16_AppendedOnceInOrder ==
    (weld.out # None /\ ~weld.out.panic) =>
        LET cmus == BlockCmus(weld.block.vtx, 1)
        IN /\ weld.out.tree = weld.tree \o cmus
           /\ \A i \in DOMAIN weld.existing_witnesses :
                 WitnessLeaves(weld.out.existing_witnesses[i])
                    = WitnessLeaves(weld.existing_witnesses[i]) \o cmus
           /\ \A k \in DOMAIN weld.out.wtxs :
                 \A i \in DOMAIN weld.out.wtxs[k].new_witnesses :
                    WitnessLeaves(weld.out.wtxs[k].new_witnesses[i]) = weld.out.tree

\* The same for blocks of one transaction.
AppendedOnceInOrderOneTx ==
    Len(weld.block.vtx) <= 1 => C16_AppendedOnceInOrder

(***************************************************************************)
(* Properties of the notes a committed block leaves.  In the step that     *)
(* commits a block, pass holds the transactions scan_block returned for it.*)
(***************************************************************************)
Committing == pass.pc = "commit" /\ pass'.pc = "loop" /\ peer' = peer

\* The row of transactions, after the step, of the transaction with a txid.
TxRowAfter(txid) == CHOOSE t \in DOMAIN transactions' : transactions'[t].txid = txid

\* The nullifiers of the matched spends of the block.
SpentNfs(txs) ==
    UNION {{txs[k].tx.shielded_spends[i].nf : i \in DOMAIN txs[k].tx.shielded_spends} :
              k \in DOMAIN txs}

(***************************************************************************)
(* A cache whose blocks may reveal one nullifier twice.  The block at the  *)
(* activation height pays account 0; a later block is empty, spends that   *)
(* note with change, or holds two transactions that both reveal the        *)
(* nullifier of that note, the second one paying the change.               *)
(***************************************************************************)
NextTwice ==
    \/ \E h \in Heights :
         \E vtx \in IF h = SAPLING_ACTIVATION_HEIGHT
                     THEN {<<Tx(1, 0, <<>>, <<Owned(1, 0, 5)>>)>>}
                     ELSE {<<>>,
                           <<Tx(4, 0, <<NoteNf(1, 0, 0)>>, <<Foreign(2), Owned(2, 0, 3)>>)>>,
                           <<Tx(5, 0, <<NoteNf(1, 0, 0)>>, <<>>),
                             Tx(6, 1, <<NoteNf(1, 0, 0)>>, <<Owned(2, 0, 3)>>)>>} :
            CachePut([height |-> h, hash |-> 1, prev_hash |-> 1, vtx |-> vtx])
    \/ ScanStep

SpecTwice == Init /\ [][NextTwice]_vars

\* The value the discovered outputs of the block pay to an account.
RECURSIVE OutputsValue(_, _, _)
OutputsValue(outs, i, account) ==
    IF i > Len(outs) THEN 0
    ELSE (IF outs[i].account = account THEN outs[i].value ELSE 0)
            + OutputsValue(outs, i + 1, account)

RECURSIVE ReceivedValue(_, _, _)
ReceivedValue(txs, k, account) ==
    IF k > Len(txs) THEN 0
    ELSE OutputsValue(txs[k].tx.shielded_outputs, 1, account)
            + ReceivedValue(txs, k + 1, account)

\* The unspent notes of an account in a note table.
UnspentOf(notes, account) ==
    {n \in DOMAIN notes : notes[n].account = account /\ notes[n].spent = Null}

\* C14: when a block commits, every stored unspent note of a tracked
\* account whose nullifier a transaction of the block reveals is marked
\* spent by that transaction after the commit, and its nullifier is neither
\* in the list kept for the later blocks of the pass nor in the one the
\* next pass loads; every matched spend is that of a stored unspent note,
\* every discovered output marked change is a new unspent note with
\* is_change, and the balance of each account has lost the value of its
\* spent notes and gained that of its new ones; get_balance is the sum of
\* the values of the unspent notes of the account.
C14_SpendScenario ==
    [][Committing =>
        /\ \A k \in DOMAIN pass.block.vtx :
              \A n \in DOMAIN received_notes :
                 (/\ \E sp \in DOMAIN pass.block.vtx[k].spends :
                        pass.block.vtx[k].spends[sp] = received_notes[n].nf
                  /\ received_notes[n].spent = Null
                  /\ received_notes[n].account \in Accounts)
                    => LET active == LoadNullifiers(received_notes', 1)
                       IN /\ \E t \in DOMAIN transactions' :
                                /\ transactions'[t].txid = pass.block.vtx[k].hash
                                /\ received_notes'[n].spent = t
                          /\ \A i \in DOMAIN pass'.nullifiers :
                                pass'.nullifiers[i][1] # received_notes[n].nf
                          /\ \A i \in DOMAIN active : active[i][1] # received_notes[n].nf
        /\ \A k \in DOMAIN pass.txs :
              LET wtx == pass.txs[k].tx
                  t == TxRowAfter(wtx.txid)
              IN /\ \A sp \in DOMAIN wtx.shielded_spends :
                       LET nf == wtx.shielded_spends[sp].nf
                           active == LoadNullifiers(received_notes', 1)
                       IN /\ \E n \in DOMAIN received_notes :
                                received_notes[n].nf = nf /\ received_notes[n].spent = Null
                          /\ \A n \in DOMAIN received_notes' :
                                received_notes'[n].nf = nf => received_notes'[n].spent = t
                          /\ \A i \in DOMAIN pass'.nullifiers : pass'.nullifiers[i][1] # nf
                          /\ \A i \in DOMAIN active : active[i][1] # nf
                 /\ \A o \in DOMAIN wtx.shielded_outputs :
                       wtx.shielded_outputs[o].is_change =>
                          \E n \in DOMAIN received_notes' \ DOMAIN received_notes :
                             /\ received_notes'[n].tx = t
                             /\ received_notes'[n].output_index = wtx.shielded_outputs[o].index
                             /\ received_notes'[n].account = wtx.shielded_outputs[o].account
                             /\ received_notes'[n].is_change
                             /\ received_notes'[n].spent = Null
        /\ \A a \in Accounts :
              /\ get_balance(received_notes', a)
                    = get_balance(received_notes, a)
                      - SumOver(received_notes,
                                {n \in UnspentOf(received_notes, a) :
                                    received_notes[n].nf \in SpentNfs(pass.txs)})
                      + ReceivedValue(pass.txs, 1, a)
              /\ get_balance(received_notes', a)
                    = SumOver(received_notes', UnspentOf(received_notes', a))]_vars

\* C15: when a block commits, every output of it that a tracked key decrypts
\* has exactly one row in received_notes, new with this block, with the
\* decrypting account, the value of the note and the index of the output,
\* unspent, and that note has exactly one witness row at the height of the
\* block; a block without matched spends adds the value of its discovered
\* outputs to the balance of each account; an account without notes, tracked
\* or unknown, has balance 0.
C15_ReceiveScenario ==
    [][Committing =>
        /\ \A k \in DOMAIN pass.txs :
              LET wtx == pass.txs[k].tx
                  t == TxRowAfter(wtx.txid)
              IN \A o \in DOMAIN wtx.shielded_outputs :
                    LET out == wtx.shielded_outputs[o]
                        rows == {n \in DOMAIN received_notes' :
                                    /\ received_notes'[n].tx = t
                                    /\ received_notes'[n].output_index = out.index}
                    IN /\ Cardinality(rows) = 1
                       /\ \A n \in rows :
                             /\ n \notin DOMAIN received_notes
                             /\ received_notes'[n].account = out.account
                             /\ received_notes'[n].value = out.value
                             /\ received_notes'[n].spent = Null
                             /\ Cardinality({w \in sapling_witnesses' :
                                               w.note = n /\ w.block = pass.last_height}) = 1
        /\ SpentNfs(pass.txs) = {} =>
              \A a \in Accounts :
                 get_balance(received_notes', a)
                    = get_balance(received_notes, a) + ReceivedValue(pass.txs, 1, a)
        /\ \A a \in 0..NumAccounts :
              (\A n \in DOMAIN received_notes' : received_notes'[n].account # a)
                 => get_balance(received_notes', a) = 0]_vars

\* Two successive blocks, each paying 5 to account 0, have been committed:
\* the account has two unspent notes and balance 10, and account 1 has none.
C15_Witness ==
    /\ pass.pc = "loop"
    /\ Cardinality(DOMAIN blocks) = 2
    /\ Cardinality(UnspentOf(received_notes, 0)) = 2
    /\ get_balance(received_notes, 0) = 10
    /\ get_balance(received_notes, 1) = 0
    /\ \A n \in DOMAIN received_notes :
          \E w \in sapling_witnesses :
             w.note = n /\ w.block = LastScannedHeight(blocks)

\* C17: a block after which the root of a witness differs from the root of
\* the tree is never persisted: every witness row stored at the height of a
\* block has the root of the tree stored for that block.
C17_NoMismatchPersisted ==
    \A w \in sapling_witnesses :
        w.block \in DOMAIN blocks =>
            WitnessRoot(w.witness) = TreeRoot(blocks[w.block].sapling_tree)

(***************************************************************************)
(* Resuming a scan.                                                        *)
(***************************************************************************)
\* What a pass standing between two blocks holds in memory is what a new
\* call would read from the tables: ending the pass here and calling again
\* continues with the same height, tree, witnesses and nullifiers.
ResumesWhereItStands ==
    pass.pc = "loop" =>
        /\ pass.last_height = LastScannedHeight(blocks)
        /\ pass.tree = LoadTree(blocks, pass.last_height)
        /\ pass.witnesses = LoadWitnesses(sapling_witnesses, pass.last_height)
        /\ pass.nullifiers = LoadNullifiers(received_notes, 1)

\* C18: a pass that ends in an error leaves the tables as the last commit
\* left them, and a pass between two blocks holds exactly what a new call
\* reads from the tables, so that scanning in several passes, some ended by
\* an error, leaves the tables that one uninterrupted pass leaves, without
\* applying a committed block again.
C18_ResumeAfterFailure ==
    [][/\ ResumesWhereItStands
       /\ ResumesWhereItStands'
       /\ (Scanning /\ pass' = Idle /\ ret' # Ok("scan")) => dbvars' = dbvars
       /\ (pass.pc = "read_nullifiers" /\ pass'.pc = "loop") =>
             /\ pass'.last_height = LastScannedHeight(blocks)
             /\ dbvars' = dbvars]_vars

(***************************************************************************)
(* More properties of validate_combined_chain.                             *)
(***************************************************************************)
InvalidHeight(expected, actual) == Err("validate", "InvalidHeight", expected, actual)

\* The lowest cached height above h.
CachedNextAbove(h) == SetMin({x \in CachedRows : x > h})

\* C19: when the cached blocks from some height g up to the top are
\* consecutive and linked and the next cached block below g is at h # g - 1,
\* the call returns InvalidHeight(g - 1, h), whatever the hash of the block
\* at h; and it returns InvalidHeight in this case only.
C19_WalkHeightSequence ==
    Validated /\ CachedRows # {} =>
        \A h \in CachedRows :
            h < SetMax(CachedRows) =>
                LET g == CachedNextAbove(h)
                IN (/\ g # h + 1
                    /\ CachedRun(g, SetMax(CachedRows))
                    /\ LinkedRun(g, SetMax(CachedRows)))
                   <=> ret = InvalidHeight(g - 1, h)

\* Two cached blocks with a gap between them, the lower one not having the
\* hash the upper one names: the call reported the gap, not the hash.
C19_Witness ==
    /\ Validated
    /\ \E h \in CachedRows :
          /\ h + 1 \notin CachedRows
          /\ h + 2 \in CachedRows
          /\ cache[h].hash # cache[h + 2].prev_hash
          /\ ret = InvalidHeight(h + 1, h)

\* C20: validate_combined_chain changes neither the cache database nor the
\* data database, whatever it returns, and returns Ok when no cached block
\* lies above the last scanned height.
C20_ValidateReadsOnly ==
    [][ret'.op = "validate" =>
          /\ cache' = cache
          /\ dbvars' = dbvars
          /\ CachedRows = {} => ret' = Ok("validate")]_vars

\* The call returned Ok although the data database holds a block and the
\* cache holds blocks, none of them above the last scanned height and two
\* of them not linked.
C20_Witness ==
    /\ Validated
    /\ ret = Ok("validate")
    /\ CachedRows = {}
    /\ DOMAIN blocks # {}
    /\ \E h \in DOMAIN blocks :
          /\ h + 1 \in DOMAIN blocks
          /\ cache[h] # None /\ cache[h + 1] # None
          /\ cache[h].hash # cache[h + 1].prev_hash


(***************************************************************************)
(* Which transactions of a block scan_block reports, and to which account  *)
(* it gives a note.                                                        *)
(***************************************************************************)
\* The accounts whose key decrypts an output; none for a malformed output.
DecryptingAccounts(output) ==
    IF output.cmu = Malformed \/ output.epk = Malformed THEN {}
    ELSE {a \in Accounts : accounts[a + 1] \in output.ciphertext.keys}

\* A transaction touches a tracked account: a spend of it carries a tracked
\* nullifier or a tracked key decrypts an output of it.
TouchesTracked(tx) ==
    \/ SpendingAccounts(tx) # {}
    \/ \E j \in DOMAIN tx.outputs : DecryptingAccounts(tx.outputs[j]) # {}

\* The entries scan_block returned for transaction k of the block.
EntriesOf(k) ==
    {e \in DOMAIN weld.out.wtxs : weld.out.wtxs[e].tx.txid = weld.block.vtx[k].hash}

\* scan_block returns an entry for a transaction exactly when it touches a
\* tracked account.
EntryIffTouched ==
    (weld.out # None /\ ~weld.out.panic) =>
        \A k \in DOMAIN weld.block.vtx :
            Cardinality(EntriesOf(k)) = (IF TouchesTracked(weld.block.vtx[k]) THEN 1 ELSE 0)

\* The set of elements of a sequence.
Range(s) == {s[i] : i \in DOMAIN s}

\* C21: scan_block returns an entry for a transaction exactly when a spend
\* of it matched a tracked nullifier or a tracked key decrypted an output of
\* it, and the outputs of a transaction that touches no tracked account are
\* still appended to the tree and to every live witness: the existing ones
\* and the ones created for the notes of earlier transactions of the block.
C21_OnlyTouchingTxsReported ==
    (weld.out # None /\ ~weld.out.panic) =>
        /\ EntryIffTouched
        /\ \A k \in DOMAIN weld.block.vtx :
              ~TouchesTracked(weld.block.vtx[k]) =>
                 LET cmus == Range(WellFormedCmus(weld.block.vtx[k].outputs, 1))
                 IN /\ cmus \subseteq Range(weld.out.tree)
                    /\ \A i \in DOMAIN weld.out.existing_witnesses :
                          cmus \subseteq Range(WitnessLeaves(weld.out.existing_witnesses[i]))
                    /\ \A e \in DOMAIN weld.out.wtxs :
                          weld.out.wtxs[e].tx.txid < weld.block.vtx[k].hash =>
                             \A i \in DOMAIN weld.out.wtxs[e].new_witnesses :
                                cmus \subseteq
                                   Range(WitnessLeaves(weld.out.wtxs[e].new_witnesses[i]))

\* The shielded outputs scan_block returned for output j of transaction k:
\* (entry, position in the entry).
NotesOf(k, j) ==
    {<<e, i>> \in (1 .. MaxTxs) \X (1 .. MaxOutputs) :
        /\ e \in EntriesOf(k)
        /\ i \in DOMAIN weld.out.wtxs[e].tx.shielded_outputs
        /\ weld.out.wtxs[e].tx.shielded_outputs[i].index = j - 1}

\* The attribution scan_block returned: the notes by transaction index and
\* output index, each with its account.
AttributionOf(out) ==
    UNION {{<<out.wtxs[e].tx.index, out.wtxs[e].tx.shielded_outputs[i].index,
              out.wtxs[e].tx.shielded_outputs[i].account>> :
               i \in DOMAIN out.wtxs[e].tx.shielded_outputs} :
           e \in DOMAIN out.wtxs}

\* The attribution the block and the keys of the accounts table determine
\* by themselves: every output a key decrypts, with the lowest account
\* whose key decrypts it.
LowestOf(S) == CHOOSE a \in S : \A b \in S : a <= b
AttributionByKeys(block) ==
    UNION {{<<block.vtx[k].index, j - 1, LowestOf(DecryptingAccounts(block.vtx[k].outputs[j]))>> :
               j \in {x \in DOMAIN block.vtx[k].outputs :
                         DecryptingAccounts(block.vtx[k].outputs[x]) # {}}} :
           k \in DOMAIN block.vtx}

\* C22: an output that more than one tracked key decrypts is given to the
\* lowest such account index; an output a tracked key decrypts yields
\* exactly one note and one witness, the witness of its own commitment, and
\* any other output yields none; the attribution of a scan is the one the
\* outputs of the block and the keys determine, whatever the tree, the
\* witnesses and the nullifiers the scan started from, so that a second
\* scan of the block gives the same attribution.
C22_FirstKeyWins ==
    (weld.out # None /\ ~weld.out.panic) =>
        /\ \A k \in DOMAIN weld.block.vtx :
              \A j \in DOMAIN weld.block.vtx[k].outputs :
                 LET output == weld.block.vtx[k].outputs[j]
                     decrypting == DecryptingAccounts(output)
                 IN IF decrypting = {} THEN NotesOf(k, j) = {}
                    ELSE /\ Cardinality(NotesOf(k, j)) = 1
                         /\ \A n \in NotesOf(k, j) :
                               LET wtx == weld.out.wtxs[n[1]]
                                   w == wtx.new_witnesses[n[2]]
                               IN /\ wtx.tx.shielded_outputs[n[2]].account \in decrypting
                                  /\ \A a \in decrypting :
                                        wtx.tx.shielded_outputs[n[2]].account <= a
                                  /\ wtx.tx.shielded_outputs[n[2]].cmu = output.cmu
                                  /\ w.tree[Len(w.tree)] = output.cmu
        /\ \A e \in DOMAIN weld.out.wtxs :
              Len(weld.out.wtxs[e].new_witnesses) = Len(weld.out.wtxs[e].tx.shielded_outputs)
        /\ AttributionOf(weld.out) = AttributionByKeys(weld.block)

\* scan_block returned a note of account 0 for an output that the keys of
\* both accounts decrypt, next to an output only account 1 decrypts.
C22_Witness ==
    /\ weld.out # None
    /\ ~weld.out.panic
    /\ \E k \in DOMAIN weld.block.vtx :
          /\ \E j \in DOMAIN weld.block.vtx[k].outputs :
                /\ DecryptingAccounts(weld.block.vtx[k].outputs[j]) = {0, 1}
                /\ \E n \in NotesOf(k, j) :
                      weld.out.wtxs[n[1]].tx.shielded_outputs[n[2]].account = 0
          /\ \E j \in DOMAIN weld.block.vtx[k].outputs :
                /\ DecryptingAccounts(weld.block.vtx[k].outputs[j]) = {1}
                /\ NotesOf(k, j) # {}


(***************************************************************************)
(* A block with corrupt outputs against the same block with an             *)
(* undecryptable output in the place of each corrupt one.                  *)
(***************************************************************************)
\* An output with a commitment of its own that no tracked key decrypts.
Undecryptable == [cmu |-> 99, epk |-> ValidEpk,
                  ciphertext |-> [keys |-> {}, value |-> 1]]

CorruptOutput(output) == output.cmu = Malformed \/ output.epk = Malformed

HasCorruptOutput(block) ==
    \E k \in DOMAIN block.vtx :
        \E j \in DOMAIN block.vtx[k].outputs : CorruptOutput(block.vtx[k].outputs[j])

\* The block with every corrupt output replaced by an undecryptable one.
CorruptAsUndecryptable(block) ==
    [block EXCEPT !.vtx =
        [k \in DOMAIN block.vtx |->
            [block.vtx[k] EXCEPT !.outputs =
                [j \in DOMAIN block.vtx[k].outputs |->
                    IF CorruptOutput(block.vtx[k].outputs[j]) THEN Undecryptable
                    ELSE block.vtx[k].outputs[j]]]]]

\* What scan_block returns for the block with undecryptable outputs in the
\* place of the corrupt ones.
AsIfUndecryptable ==
    scan_block(CorruptAsUndecryptable(weld.block), accounts, weld.nullifiers, weld.tree,
               weld.existing_witnesses)

\* A corrupt output yields no note and stops nothing: scan_block does not
\* fail, and the transactions, spends and notes it returns are those of the
\* block with an undecryptable output in the place of every corrupt one.
CorruptOutputSkipped ==
    (weld.out # None /\ HasCorruptOutput(weld.block)) =>
        /\ ~weld.out.panic
        /\ [e \in DOMAIN weld.out.wtxs |-> weld.out.wtxs[e].tx]
              = [e \in DOMAIN AsIfUndecryptable.wtxs |-> AsIfUndecryptable.wtxs[e].tx]

\* C30: a block with a corrupt output is scanned to the end, and what
\* scan_block reports for it, the position of the witness of every note
\* included, is what it reports for the same block with an undecryptable
\* output in the place of the corrupt one.
C30_CorruptAsUndecryptable ==
    (weld.out # None /\ HasCorruptOutput(weld.block)) =>
        /\ CorruptOutputSkipped
        /\ \A e \in DOMAIN weld.out.wtxs :
              \A i \in DOMAIN weld.out.wtxs[e].new_witnesses :
                 WitnessPosition(weld.out.wtxs[e].new_witnesses[i])
                    = WitnessPosition(AsIfUndecryptable.wtxs[e].new_witnesses[i])


(***************************************************************************)
(* The outcome of scan_cached_blocks on a height-sequential run.           *)
(***************************************************************************)
\* The step in which the loop of scan_cached_blocks takes up a cached block
\* at the height that follows the last scanned one.
TakesUpSequentialBlock ==
    /\ pass.pc = "loop"
    /\ NextRow # None
    /\ HeightSequential(NextRow.height, pass.last_height)
    /\ pass' # pass

\* C29: scan_cached_blocks does not return an error on a height-sequential
\* run of decodable blocks, whatever they contain: every block at the height
\* that follows the last scanned one is scanned and goes on to be persisted,
\* so that the call ends with Ok at the last block of the run.
C29_SequentialRunScanned ==
    [][TakesUpSequentialBlock =>
          /\ pass'.pc = "insert_block"
          /\ pass'.last_height = NextRow.height
          /\ ret' = NoRet]_vars


(***************************************************************************)
(* The hash functions on their own: merkle_hash at two depths over the     *)
(* same children, and empty_root.                                          *)
(***************************************************************************)
\* The depths handed to merkle_hash: those it accepts and some it rejects.
MaxDepthArg == 64

InitHash ==
    /\ InitData
    /\ accounts = AllKeys
    /\ weld = NoWeld
    /\ \E depth \in 0 .. MaxDepthArg, other \in 0 .. MaxDepthArg :
          hashed = [call |-> "start", depth |-> depth, other |-> other]

\* merkle_hash(depth, lhs, rhs) and merkle_hash(other, lhs, rhs)
MerkleHash ==
    /\ hashed.call = "start"
    /\ \E lhs \in {Blank, 1}, rhs \in {Blank, 1} :
          hashed' = [call |-> "merkle_hash", depth |-> hashed.depth, other |-> hashed.other,
                     lhs |-> lhs, rhs |-> rhs,
                     out |-> merkle_hash(hashed.depth, lhs, rhs),
                     out_other |-> merkle_hash(hashed.other, lhs, rhs)]
    /\ UNCHANGED <<accounts, cache, reorgs, dbvars, pass, ret, weld, peer>>

\* Node::empty_root(depth); panic is the index out of the bounds of
\* EMPTY_ROOTS.
EmptyRootCall ==
    /\ hashed.call = "start"
    /\ hashed' = [call |-> "empty_root", depth |-> hashed.depth, other |-> hashed.other,
                  out |-> IF hashed.depth + 1 \in DOMAIN EMPTY_ROOTS
                          THEN [panic |-> FALSE, node |-> EmptyRoot(hashed.depth)]
                          ELSE [panic |-> TRUE, node |-> Null]]
    /\ UNCHANGED <<accounts, cache, reorgs, dbvars, pass, ret, weld, peer>>

NextHash == MerkleHash \/ EmptyRootCall
SpecHash == InitHash /\ [][NextHash]_vars

\* The number a sequence of bits encodes, least significant bit first.
RECURSIVE LittleEndianValue(_)
LittleEndianValue(bits) ==
    IF bits = <<>> THEN 0
    ELSE (IF Head(bits) THEN 1 ELSE 0) + 2 * LittleEndianValue(Tail(bits))

\* C28: merkle_hash rejects a depth of 63 or more by assertion; for a depth
\* below 63 the bits it puts before the children are the six-bit
\* little-endian encoding of the depth, which differ from the six ones of
\* the note commitment personalization, and combining the same children at
\* two different depths gives different nodes; empty_root(d) is defined for
\* d up to SAPLING_COMMITMENT_TREE_DEPTH, empty_root(0) is the blank leaf
\* and empty_root(d + 1) is combine(d, empty_root(d), empty_root(d)).
C28_DepthSeparation ==
    /\ hashed.call = "merkle_hash" =>
          /\ hashed.out.panic <=> hashed.depth >= 63
          /\ ~hashed.out.panic =>
                LET prefix == hashed.out.point[1]
                IN /\ Len(prefix) = 6
                   /\ LittleEndianValue(prefix) = hashed.depth
                   /\ prefix # get_bits(NoteCommitment).bits
                   /\ hashed.out.point[2] = ChildBits(hashed.lhs, hashed.rhs)
                   /\ hashed.out.point = Combine(hashed.depth, hashed.lhs, hashed.rhs)
          /\ (~hashed.out.panic /\ ~hashed.out_other.panic /\ hashed.depth # hashed.other) =>
                /\ hashed.out.point[1] # hashed.out_other.point[1]
                /\ hashed.out.point # hashed.out_other.point
    /\ hashed.call = "empty_root" =>
          (hashed.out.panic <=> hashed.depth > SAPLING_COMMITMENT_TREE_DEPTH)
    /\ (hashed.call = "empty_root" /\ ~hashed.out.panic) =>
          hashed.out.node = (IF hashed.depth = 0 THEN Blank
                             ELSE Combine(hashed.depth - 1, EmptyRoot(hashed.depth - 1),
                                          EmptyRoot(hashed.depth - 1)))

\* merkle_hash was applied at depths 62 and 0 to the same children.
C28_Witness ==
    /\ hashed.call = "merkle_hash"
    /\ hashed.depth = 62 /\ hashed.other = 0
    /\ ~hashed.out.panic /\ ~hashed.out_other.panic
    /\ hashed.lhs = 1


(***************************************************************************)
(* A data database from its creation on: the accounts table and the blocks *)
(* table start empty and are initialised, or not, before scanning.         *)
(***************************************************************************)
\* The heights, the trees and the cached blocks of this specification: a
\* checkpoint below the activation height, at it or above it; the bytes of
\* an empty tree, of a tree of one leaf, or of no tree at all; at every
\* height a block without transactions or with a payment to key 0.
InitHeights == {SAPLING_ACTIVATION_HEIGHT - 2, SAPLING_ACTIVATION_HEIGHT,
                SAPLING_ACTIVATION_HEIGHT + 1}
InitTrees == {EmptyTree, <<7>>, UndecodableTree}
InitCacheBlocks ==
    {[height |-> h, hash |-> 1, prev_hash |-> 1, vtx |-> vtx] :
        h \in Heights, vtx \in {<<>>}} \cup
    {[height |-> h, hash |-> 1, prev_hash |-> 1,
      vtx |-> <<Tx(h, 0, <<>>, <<Owned(h, 0, 5)>>)>>] : h \in Heights}

InitFresh ==
    /\ InitData
    /\ accounts = <<>>
    /\ hashed = NoHash
    /\ weld = NoWeld

NextInit ==
    \/ \E block \in InitCacheBlocks : CachePut(block)
    \/ InitAccountsStep(KeyLists)
    \/ InitBlocksTable(InitHeights, InitTrees)
    \/ InitBlocksInsert
    \/ ScanStep

SpecInit == InitFresh /\ [][NextInit]_vars


\* C25: init_accounts_table passes its check, with any list of keys, the
\* empty one included, while the accounts table is empty, and its COMMIT
\* leaves the keys it was given as the table (none for the empty list, after
\* which the next call passes again); it fails with TableNotEmpty once the
\* table holds an account; init_blocks_table passes its check on an empty
\* blocks table and inserts its row, and fails with TableNotEmpty when the
\* table holds a row, be it of an earlier init or of a scan; the one other
\* failure of either call is the database error of a statement that fails;
\* a failed call leaves every table as it was, and neither call touches a
\* table other than its own.
C25_InitOnlyOnEmpty ==
    [][/\ InitAccountsTable(KeyLists) =>
             /\ accounts = <<>> => pass'.pc = "init_accounts_begin"
             /\ accounts # <<>> =>
                   /\ ret' = Err("init_accounts", "TableNotEmpty", Null, Null)
                   /\ pass' = Idle
             /\ UNCHANGED <<accounts, cache, dbvars>>
       /\ InitAccountsBegin =>
             /\ pass'.pc = "init_accounts_txn"
             /\ UNCHANGED <<accounts, cache, dbvars>>
       /\ InitAccountsCommit =>
             /\ ret' = Ok("init_accounts")
             /\ accounts = <<>>
             /\ accounts' = pass.extfvks
             /\ UNCHANGED <<cache, dbvars>>
       /\ InitAccountsAbort =>
             /\ ret' = Err("init_accounts", "Database", Null, Null)
             /\ UNCHANGED <<accounts, cache, dbvars>>
       /\ InitBlocksTable(InitHeights, InitTrees) =>
             /\ DOMAIN blocks = {} => pass'.pc = "init_insert"
             /\ DOMAIN blocks # {} =>
                   /\ ret' = Err("init_blocks", "TableNotEmpty", Null, Null)
                   /\ pass' = Idle
             /\ UNCHANGED <<accounts, cache, dbvars>>
       /\ InitBlocksInsert =>
             /\ \/ /\ ret' = Ok("init_blocks")
                   /\ blocks = [h \in {} |-> None]
                   /\ blocks' = (pass.height :> BlockRow(pass.sapling_tree))
                \/ /\ ret' = Err("init_blocks", "Database", Null, Null)
                   /\ UNCHANGED blocks
             /\ UNCHANGED <<accounts, cache, transactions, received_notes,
                            sapling_witnesses>>]_vars

\* init_accounts_table was refused on a table of two accounts, in a wallet
\* whose blocks table was filled by scanning a payment.
C25_Witness ==
    /\ ret = Err("init_accounts", "TableNotEmpty", Null, Null)
    /\ Len(accounts) = 2
    /\ DOMAIN blocks # {}
    /\ received_notes # <<>>

\* The steps of a scan: its start (the step that completes the loading of
\* its state), the taking up of a cached block, and the acceptance of one.
ScanStarts == pass.pc = "read_nullifiers" /\ pass'.pc = "loop"
TakesUpBlock == pass.pc = "loop" /\ NextRow # None /\ pass' # pass
AcceptsBlock == pass.pc = "loop" /\ pass'.pc = "insert_block"

\* C26: a scan of a data database without blocks starts below the Sapling
\* activation height with an empty tree and no witnesses, and a scan of one
\* with blocks starts at the highest of them with the tree stored for it,
\* the one init_blocks_table was given when the row is of an init; the block
\* it accepts next is the one at the activation height, respectively the one
\* that follows the highest scanned height, and the tree is continued with
\* the commitments of that block; no cached block at or below the highest
\* scanned height is taken up, and no row of a scanned height changes.
C26_ScanStartingPoint ==
    [][/\ ScanStarts =>
             IF DOMAIN blocks = {}
             THEN /\ pass'.last_height = SAPLING_ACTIVATION_HEIGHT - 1
                  /\ pass'.tree = EmptyTree
                  /\ pass'.witnesses = <<>>
             ELSE /\ pass'.last_height = SetMax(DOMAIN blocks)
                  /\ pass'.tree = blocks[SetMax(DOMAIN blocks)].sapling_tree
       /\ AcceptsBlock =>
             /\ pass'.block.height = (IF DOMAIN blocks = {} THEN SAPLING_ACTIVATION_HEIGHT
                                      ELSE SetMax(DOMAIN blocks) + 1)
             /\ pass'.tree = pass.tree \o BlockCmus(pass'.block.vtx, 1)
       /\ TakesUpBlock => \A h \in DOMAIN blocks : NextRow.height > h
       /\ \A h \in DOMAIN blocks : h \in DOMAIN blocks' /\ blocks'[h] = blocks[h]
       /\ (Scanning /\ ~Committing) => UNCHANGED dbvars]_vars

\* After init_blocks_table(280001, time, tree) with a tree of one leaf, and
\* with blocks cached at 280000 and 280001, the scan has accepted the block
\* at 280002 and continued the tree with the commitment of its payment.
C26_Witness ==
    /\ pass.pc = "insert_block"
    /\ DOMAIN blocks = {SAPLING_ACTIVATION_HEIGHT + 1}
    /\ blocks[SAPLING_ACTIVATION_HEIGHT + 1].sapling_tree = <<7>>
    /\ cache[SAPLING_ACTIVATION_HEIGHT] # None
    /\ cache[SAPLING_ACTIVATION_HEIGHT + 1] # None
    /\ pass.block.height = SAPLING_ACTIVATION_HEIGHT + 2
    /\ pass.tree = <<7, SAPLING_ACTIVATION_HEIGHT + 2>>


(***************************************************************************)
(* Spend locks.  A transaction the wallet has created and not yet seen     *)
(* mined is a row of transactions without block and with an expiry height, *)
(* and the notes it spends refer to it in their spent column.  The code    *)
(* that creates such a transaction is not part of this repository; the     *)
(* step is modelled from the persisted layout of the specification.        *)
(***************************************************************************)
ExpiryHeights == {SAPLING_ACTIVATION_HEIGHT + 1, SAPLING_ACTIVATION_HEIGHT + 2}

\* The transaction that spends the note of the block at the activation
\* height and pays change to account 0, and one that is never mined.
SpendTxid == 9
LostTxid == 8

LockNote ==
    /\ pass = Idle
    /\ \E n \in DOMAIN received_notes, txid \in {SpendTxid, LostTxid},
          expiry_height \in ExpiryHeights :
         /\ received_notes[n].spent = Null
         /\ \A t \in DOMAIN transactions : transactions[t].txid # txid
         /\ transactions' = Append(transactions,
                                   [txid |-> txid, block |-> Null, tx_index |-> Null,
                                    expiry_height |-> expiry_height])
         /\ received_notes' = [received_notes EXCEPT ![n].spent = Len(transactions) + 1]
    /\ ret' = NoRet
    /\ UNCHANGED <<hashed, accounts, cache, reorgs, blocks, sapling_witnesses, pass, weld, peer>>

\* The cached blocks: at every height no transaction, a payment to account
\* 0, or the spend of the first note with change; at the activation height
\* also the payment followed, in the same block, by a transaction that
\* spends the note just paid and has no output.
ExpiryBlocks ==
    {[height |-> h, hash |-> 1, prev_hash |-> 1, vtx |-> vtx] :
        h \in Heights, vtx \in {<<>>}} \cup
    {[height |-> h, hash |-> 1, prev_hash |-> 1,
      vtx |-> <<Tx(h, 0, <<>>, <<Owned(h, 0, 5)>>),
                Tx(7, 1, <<NoteNf(h, 0, 0)>>, <<>>)>>] : h \in {SAPLING_ACTIVATION_HEIGHT}} \cup
    {[height |-> h, hash |-> 1, prev_hash |-> 1,
      vtx |-> <<Tx(h, 0, <<>>, <<Owned(h, 0, 5)>>)>>] : h \in Heights} \cup
    {[height |-> h, hash |-> 1, prev_hash |-> 1,
      vtx |-> <<Tx(SpendTxid, 0, <<NoteNf(SAPLING_ACTIVATION_HEIGHT, 0, 0)>>,
                   <<Owned(h + 10, 0, 3)>>)>>] : h \in Heights \ {SAPLING_ACTIVATION_HEIGHT}}

NextExpiry ==
    \/ \E block \in ExpiryBlocks : CachePut(block)
    \/ LockNote
    \/ ScanStep

SpecExpiry == Init /\ [][NextExpiry]_vars

\* A transaction row is unmined and has expired below height h.
ExpiredUnmined(t, h) ==
    /\ t.block = Null
    /\ t.expiry_height # Null
    /\ t.expiry_height < h

\* C23: in the step that commits the block at height H, every note whose
\* spent column referred to a transaction without block and with
\* expiry_height < H is unspent, and a note whose spent column referred to a
\* transaction that is mined, or unmined with expiry_height >= H, refers to
\* it as before.
C23_ExpiredLocksReleased ==
    [][Committing =>
          \A n \in DOMAIN received_notes :
              LET before == received_notes[n].spent
                  after == received_notes'[n].spent
              IN before # Null =>
                   LET t == transactions'[before]
                   IN /\ ExpiredUnmined(t, pass.last_height) => after = Null
                      /\ (t.block # Null
                            \/ (t.expiry_height # Null /\ t.expiry_height >= pass.last_height))
                         => after = before]_vars

\* Both blocks above the activation height are scanned; one unmined
\* transaction that expired at the first of them locks no note any more,
\* another that expires at the second still locks one, and a note is spent
\* by a mined transaction.
C23_Witness ==
    /\ pass = Idle
    /\ LastScannedHeight(blocks) = SAPLING_ACTIVATION_HEIGHT + 2
    /\ \E t \in DOMAIN transactions :
          /\ ExpiredUnmined(transactions[t], SAPLING_ACTIVATION_HEIGHT + 2)
          /\ \A n \in DOMAIN received_notes : received_notes[n].spent # t
    /\ \E t \in DOMAIN transactions :
          /\ transactions[t].block # Null
          /\ \E n \in DOMAIN received_notes : received_notes[n].spent = t


(***************************************************************************)
(* A long chain: more blocks than the witnesses of PRUNE_DEPTH heights,    *)
(* all in the cache from the start.  The block at the activation height    *)
(* pays account 0, a later one may pay account 1, the others are empty.    *)
(***************************************************************************)
\* The number of blocks beyond the pruning window.
LongExtra == 2
LongHeights ==
    SAPLING_ACTIVATION_HEIGHT .. (SAPLING_ACTIVATION_HEIGHT + PRUNE_DEPTH + LongExtra)

\* The heights of the second payment; the activation height stands for none.
LatePayHeights == {SAPLING_ACTIVATION_HEIGHT, SAPLING_ACTIVATION_HEIGHT + ANCHOR_OFFSET + 2,
                   SAPLING_ACTIVATION_HEIGHT + PRUNE_DEPTH + 1}

LongBlock(h, late) ==
    [height |-> h, hash |-> 1, prev_hash |-> 1,
     vtx |-> IF h = SAPLING_ACTIVATION_HEIGHT
             THEN <<Tx(1, 0, <<>>, <<Owned(1, 0, 5)>>)>>
             ELSE IF h = late THEN <<Tx(2, 0, <<>>, <<Owned(2, 1, 7)>>)>>
             ELSE <<>>]

InitLong ==
    /\ InitTables
    /\ accounts = AllKeys
    /\ hashed = NoHash
    /\ weld = NoWeld
    /\ \E late \in LatePayHeights : cache = [h \in LongHeights |-> LongBlock(h, late)]

\* The heights rewind_to_height is called with: the first block, and the
\* last one whose witnesses every later block of the chain keeps.
LongRewindHeights == {SAPLING_ACTIVATION_HEIGHT, SAPLING_ACTIVATION_HEIGHT + LongExtra}

NextLong ==
    \/ ScanStep
    \/ RewindStep(LongRewindHeights)
    \/ GetVerifiedBalanceStep(Keys)
    \/ InitBlocksTable({1}, {EmptyTree})
    \/ InitBlocksInsert

SpecLong == InitLong /\ [][NextLong]_vars

\* After the commit of the block at height H no witness row is older than
\* H - PRUNE_DEPTH.
PrunedToWindow ==
    [][Committing =>
          \A w \in sapling_witnesses' : w.block >= pass.last_height - PRUNE_DEPTH]_vars

\* The notes of mined transactions that have a witness row at every scanned
\* height from their own height, or from h - PRUNE_DEPTH if that is higher.
WitnessedInWindow(db, h) ==
    {n \in DOMAIN db.received_notes :
        LET t == db.transactions[db.received_notes[n].tx]
        IN t.block # Null =>
             \A b \in DOMAIN db.blocks :
                (b >= Max(t.block, h - PRUNE_DEPTH) /\ b <= h) =>
                    \E w \in db.sapling_witnesses : w.note = n /\ w.block = b}

\* The commit of a block keeps the window of every note that had it before.
WitnessWindowKept ==
    [][Committing =>
          \A n \in DOMAIN received_notes :
              n \in WitnessedInWindow(DB, pass.last_height - 1)
                 => n \in WitnessedInWindow(pass.txn, pass.last_height)]_vars

\* C24: after the commit of the block at height H no witness row with
\* block < H - 100 remains, and every note of a mined transaction has a
\* witness row at every scanned height from the higher of its own height
\* and H - 100 through H.
C24_WitnessWindow ==
    [][Committing =>
          /\ \A w \in sapling_witnesses' : w.block >= pass.last_height - PRUNE_DEPTH
          /\ \A n \in DOMAIN received_notes' :
                n \in WitnessedInWindow(pass.txn, pass.last_height)]_vars

\* The anchor of the claim on the blocks table as it is: the higher of
\* (max scanned height + 1) - 10, not below 0, and the min scanned height.
ClaimedAnchor ==
    Max(Max((SetMax(DOMAIN blocks) + 1) - 10, 0), SetMin(DOMAIN blocks))

\* C27: get_verified_balance fails with ScanRequired when the blocks table
\* is empty; otherwise it returns the sum of the values of the unspent notes
\* of the account whose transaction is mined at or below the anchor, the
\* anchor being the higher of (max scanned height + 1) - 10, not below 0,
\* and the min scanned height; the anchor lies between the min and the max
\* scanned height and the verified balance does not exceed the balance.
\* The call is that of a single caller: no other call runs between its two
\* statements.
C27_VerifiedBalance ==
    /\ [][GetVerifiedBalance(Keys) =>
            /\ DOMAIN blocks = {} =>
                  /\ ret' = Err("get_verified_balance", "ScanRequired", Null, Null)
                  /\ pass' = Idle
            /\ DOMAIN blocks # {} =>
                  /\ pass'.pc = "verified_sum"
                  /\ pass'.anchor_height = ClaimedAnchor
                  /\ SetMin(DOMAIN blocks) <= pass'.anchor_height
                  /\ pass'.anchor_height <= SetMax(DOMAIN blocks)
            /\ UNCHANGED <<accounts, cache, dbvars>>]_vars
    /\ [][GetVerifiedBalanceSum =>
            /\ DOMAIN blocks # {}
            /\ ret'.kind = "Ok"
            /\ ret'.a = SumOver(received_notes,
                           {n \in DOMAIN received_notes :
                               /\ received_notes[n].account = pass.account
                               /\ received_notes[n].spent = Null
                               /\ MinedAt(received_notes[n].tx) # Null
                               /\ MinedAt(received_notes[n].tx) <= ClaimedAnchor})
            /\ ret'.a <= get_balance(received_notes, pass.account)
            /\ UNCHANGED <<accounts, cache, dbvars>>]_vars

\* More than ten blocks are scanned, so that the anchor is above the first
\* of them, and the call has returned for account 1: the payment to account
\* 0 at the first block would be verified, the payment to account 1 above
\* the anchor is in the balance only.
C27_Witness ==
    /\ DOMAIN blocks # {}
    /\ SetMax(DOMAIN blocks) + 1 - ANCHOR_OFFSET > SetMin(DOMAIN blocks)
    /\ ret = VerifiedBalance(0)
    /\ SumVerified(DB, 1, 0, ClaimedAnchor) = 5
    /\ SumVerified(DB, 1, 1, ClaimedAnchor) = 0
    /\ get_balance(received_notes, 1) = 7



(***************************************************************************)
(* Spends of notes received in the same pass.                              *)
(***************************************************************************)
\* The transactions of a cached block that reveal a nullifier.
Revealing(block, nf) ==
    {k \in DOMAIN block.vtx : nf \in Range(block.vtx[k].spends)}

\* The notes, after the step, that the block being committed spends: a note
\* that was stored unspent before the block, or a note of an earlier
\* transaction of the block itself, whose nullifier a transaction of the
\* block reveals.
SpentByBlock ==
    {n \in DOMAIN received_notes' :
        \E k \in Revealing(pass.block, received_notes'[n].nf) :
            \/ n \in DOMAIN received_notes /\ received_notes[n].spent = Null
            \/ /\ n \notin DOMAIN received_notes
               /\ transactions'[received_notes'[n].tx].tx_index < pass.block.vtx[k].index}

\* C31: when a block commits, every note whose nullifier one of its
\* transactions reveals is recorded as spent, whether the note was received
\* in an earlier block or in an earlier transaction of the same block.
C31_SpendsInPassDetected ==
    [][Committing => \A n \in SpentByBlock : received_notes'[n].spent # Null]_vars

\* The part the code keeps: in the step that writes the transactions of a
\* block, every stored note whose nullifier is in the list of the pass and
\* is revealed by a transaction of the block is marked spent, and the notes
\* of earlier blocks of the pass are in that list.
SpendsOfEarlierBlocksDetected ==
    [][(pass.pc = "txs" /\ pass'.pc = "witnesses") =>
         \A n \in DOMAIN pass.txn.received_notes :
            (/\ Revealing(pass.block, pass.txn.received_notes[n].nf) # {}
             /\ \E e \in DOMAIN pass.nullifiers :
                   pass.nullifiers[e][1] = pass.txn.received_notes[n].nf)
                => pass'.txn.received_notes[n].spent # Null]_vars


(***************************************************************************)
(* The nullifier list of a pass against the stored notes.                  *)
(***************************************************************************)
\* The (nullifier, account) pairs of the stored notes without a spender.
UnspentNullifiers(notes) ==
    {<<notes[n].nf, notes[n].account>> : n \in {i \in DOMAIN notes : notes[i].spent = Null}}

\* C33: right after the COMMIT of a block, the nullifier list the pass
\* matches the spends of the next block against holds exactly the
\* (nullifier, account) pairs of the stored notes whose spent column is
\* NULL, those released by the expiry step included.
C33_NullifierListCoherent ==
    [][Committing => Range(pass'.nullifiers) = UnspentNullifiers(received_notes')]_vars

\* The part the code keeps: every pair of the list is that of a stored note
\* without a spender, and the notes missing from the list are those whose
\* lock the expiry step of a block of this pass released.
NullifierListWithinUnspent ==
    [][Committing =>
         /\ Range(pass'.nullifiers) \subseteq UnspentNullifiers(received_notes')
         /\ \A n \in DOMAIN received_notes' :
               (/\ received_notes'[n].spent = Null
                /\ <<received_notes'[n].nf, received_notes'[n].account>>
                      \notin Range(pass'.nullifiers))
                 => /\ n \in DOMAIN received_notes
                    /\ received_notes[n].spent # Null
                       \/ <<received_notes[n].nf, received_notes[n].account>>
                             \notin Range(pass.nullifiers)]_vars


(***************************************************************************)
(* The rows of the touched transactions.                                   *)
(***************************************************************************)
\* The rows of a transactions table with a txid.
RowsOf(txs, txid) == {t \in DOMAIN txs : txs[t].txid = txid}

\* At most one row per txid.
TxidUnique == \A t \in DOMAIN transactions : RowsOf(transactions, transactions[t].txid) = {t}

\* The block being committed has set the row of a touched transaction: the
\* row the txid had before is kept and updated in place, or else a new row
\* is inserted; the new notes of the transaction and the notes its matched
\* spends name refer to that row.
TouchedTxRow(wtx) ==
    LET before == RowsOf(transactions, wtx.tx.txid)
        after == RowsOf(transactions', wtx.tx.txid)
        spent == {wtx.tx.shielded_spends[i].nf : i \in DOMAIN wtx.tx.shielded_spends}
    IN /\ Cardinality(after) = 1
       /\ before # {} => after = before
       /\ before = {} => \A t \in after : t > Len(transactions)
       /\ \A t \in after :
             /\ transactions'[t].block = pass.last_height
             /\ transactions'[t].tx_index = wtx.tx.index
             /\ \A i \in DOMAIN wtx.tx.shielded_outputs :
                   \E n \in DOMAIN received_notes' \ DOMAIN received_notes :
                      /\ received_notes'[n].tx = t
                      /\ received_notes'[n].output_index = wtx.tx.shielded_outputs[i].index
             /\ \A n \in DOMAIN received_notes' :
                   received_notes'[n].nf \in spent => received_notes'[n].spent = t

\* C36: there is at all times at most one transactions row per txid; when a
\* block commits, a touched transaction whose txid already had a row has
\* that row's block and tx_index set in place, any other gets a new row, and
\* the notes the transaction received and those it spends refer to that one
\* row; the rows of the other txids are left as they were.
C36_UpdateOrInsert ==
    /\ []TxidUnique
    /\ [][Committing =>
            /\ \A k \in DOMAIN pass.txs : TouchedTxRow(pass.txs[k])
            /\ \A t \in DOMAIN transactions :
                  (\A k \in DOMAIN pass.txs : pass.txs[k].tx.txid # transactions[t].txid)
                      => transactions'[t].txid = transactions[t].txid
                         /\ transactions'[t].block = transactions[t].block
            /\ Len(transactions') =
                  Len(transactions) +
                  Cardinality({k \in DOMAIN pass.txs :
                                  RowsOf(transactions, pass.txs[k].tx.txid) = {}})]_vars

\* The transaction recorded before it was mined has been mined: its row is
\* still the only one of its txid, it has the block and the index, the note
\* it spends and the change it pays refer to it; another transaction of the
\* wallet got a row of its own when it was scanned.
C36_Witness ==
    /\ pass = Idle
    /\ \E t \in DOMAIN transactions :
          /\ transactions[t].txid = SpendTxid
          /\ transactions[t].expiry_height # Null
          /\ transactions[t].block # Null
          /\ \E n \in DOMAIN received_notes : received_notes[n].spent = t
          /\ \E n \in DOMAIN received_notes :
                received_notes[n].tx = t /\ received_notes[n].is_change
          /\ \E u \in DOMAIN transactions :
                u < t /\ transactions[u].expiry_height = Null /\ transactions[u].block # Null


(***************************************************************************)
(* Scanning again the blocks a rewind has removed.                         *)
(***************************************************************************)
\* The pass is about to write the transactions of a block it had scanned
\* before a rewind: every transaction reported for the block has a row that
\* the rewind left without a block, and the stored notes of that row are the
\* discovered outputs, with the nullifiers of the positions they have now.
RescanOfRewound ==
    /\ pass.pc = "txs"
    /\ pass.txs # <<>>
    /\ \A k \in DOMAIN pass.txs :
          LET wtx == pass.txs[k]
          IN \E t \in DOMAIN transactions :
                /\ transactions[t].txid = wtx.tx.txid
                /\ transactions[t].block = Null
                /\ \A i \in DOMAIN wtx.tx.shielded_outputs :
                      \E n \in DOMAIN received_notes :
                         /\ received_notes[n].tx = t
                         /\ received_notes[n].output_index = wtx.tx.shielded_outputs[i].index
                         /\ received_notes[n].nf =
                               NoteNf(wtx.tx.shielded_outputs[i].cmu,
                                      wtx.tx.shielded_outputs[i].account,
                                      WitnessPosition(wtx.new_witnesses[i]))

\* C32: when blocks are scanned, removed by rewind_to_height and scanned
\* again, the second scan violates no uniqueness constraint on the rows the
\* first scan has recorded.
C32_RescanAfterRewind ==
    RescanOfRewound =>
        ~PersistTxs([db |-> pass.txn, witnesses |-> pass.witnesses,
                     nullifiers |-> pass.nullifiers, failed |-> FALSE],
                    pass.last_height, pass.txs, 1).failed

\* What the code does instead: once a rewind has un-mined a transaction
\* that paid the wallet, no pass commits the block that holds it again.
RewoundNotesBlockRescan ==
    [][Committing =>
         \A k \in DOMAIN pass.txs :
            pass.txs[k].tx.shielded_outputs # <<>> =>
               RowsOf(transactions, pass.txs[k].tx.txid) = {}]_vars


(***************************************************************************)
(* The witness and the nullifier of a discovered note.                     *)
(***************************************************************************)
\* The commitments scan_block has appended for a block before it comes to
\* output j (counted from 0) of transaction k.
CmusBefore(vtx, k, j) ==
    BlockCmus(SubSeq(vtx, 1, k - 1), 1) \o WellFormedCmus(SubSeq(vtx[k].outputs, 1, j), 1)

\* The leaves of the tree when scan_block comes to a discovered output of
\* the block being committed: those of the tree stored for the height
\* below, and the commitments of the block before the output.
LeavesBefore(txid, index) ==
    LET k == CHOOSE i \in DOMAIN pass.block.vtx : pass.block.vtx[i].hash = txid
    IN LoadTree(blocks, pass.last_height - 1) \o CmusBefore(pass.block.vtx, k, index)

\* C37: when a block commits, the i-th new witness of each reported
\* transaction belongs to its i-th discovered output: it is the tree as it
\* was right after the commitment of that output was appended, so its
\* position is the number of leaves the tree held before the output, and
\* the nullifier stored for the note is the one of that commitment, that
\* position and the decrypting account.
C37_WitnessAtOwnLeaf ==
    [][Committing =>
         \A e \in DOMAIN pass.txs :
            LET wtx == pass.txs[e]
            IN /\ Len(wtx.new_witnesses) = Len(wtx.tx.shielded_outputs)
               /\ \A i \in DOMAIN wtx.tx.shielded_outputs :
                     LET out == wtx.tx.shielded_outputs[i]
                         w == wtx.new_witnesses[i]
                         before == LeavesBefore(wtx.tx.txid, out.index)
                     IN /\ w.tree = Append(before, out.cmu)
                        /\ WitnessPosition(w) = Len(before)
                        /\ \E n \in DOMAIN received_notes' \ DOMAIN received_notes :
                              /\ received_notes'[n].tx = TxRowAfter(wtx.tx.txid)
                              /\ received_notes'[n].output_index = out.index
                              /\ received_notes'[n].account = out.account
                              /\ received_notes'[n].nf =
                                    NoteNf(out.cmu, out.account, Len(before))]_vars

\* A block whose first transaction has a foreign output and the change of a
\* spend has been committed on a tree of one leaf: the note of the change
\* has the nullifier of position 2, and its witness row at this height is
\* anchored at leaf 2.
C37_Witness ==
    /\ pass.pc = "loop"
    /\ \E n \in DOMAIN received_notes :
          /\ received_notes[n].nf[3] = 2
          /\ received_notes[n].output_index = 1
          /\ \E w \in sapling_witnesses :
                /\ w.note = n
                /\ w.block = LastScannedHeight(blocks)
                /\ WitnessPosition(w.witness) = 2
                /\ w.witness.tree[3] = received_notes[n].nf[1]


(***************************************************************************)
(* The heights the tables refer to.                                        *)
(***************************************************************************)
\* The heights of the blocks table form a range without a gap.
ContiguousHeights(blks) ==
    DOMAIN blks = {} \/ DOMAIN blks = SetMin(DOMAIN blks) .. SetMax(DOMAIN blks)

\* C35: after any sequence of init_blocks_table, scan_cached_blocks and
\* rewind_to_height calls the heights of the blocks table are contiguous or
\* the table is empty, every witness row is at a height of the blocks
\* table, and so is every transaction that has a block.
C35_HeightsConsistent ==
    /\ ContiguousHeights(blocks)
    /\ \A w \in sapling_witnesses : w.block \in DOMAIN blocks
    /\ \A t \in DOMAIN transactions :
          transactions[t].block # Null => transactions[t].block \in DOMAIN blocks

\* The table was initialised at the activation height, two blocks with
\* payments were scanned on top of it and the upper one was rewound: two
\* heights are left, a transaction is mined in the upper of them and has a
\* witness row there, and another transaction is without a block.
C35_Witness ==
    /\ pass = Idle
    /\ ret = Ok("rewind")
    /\ DOMAIN blocks = {SAPLING_ACTIVATION_HEIGHT, SAPLING_ACTIVATION_HEIGHT + 1}
    /\ blocks[SAPLING_ACTIVATION_HEIGHT].sapling_tree = EmptyTree
    /\ \E t \in DOMAIN transactions :
          /\ transactions[t].block = SAPLING_ACTIVATION_HEIGHT + 1
          /\ \E n \in DOMAIN received_notes, w \in sapling_witnesses :
                received_notes[n].tx = t /\ w.note = n /\ w.block = transactions[t].block
    /\ \E t \in DOMAIN transactions : transactions[t].block = Null


(***************************************************************************)
(* The witnesses a rewind leaves for the next pass.                        *)
(***************************************************************************)
\* A step of rewind_to_height that removes blocks, to a height that is not
\* more than PRUNE_DEPTH below the last scanned one and not below the
\* lowest stored one.
RewindsInWindow ==
    /\ pass.pc = "rewind_txn" /\ pass' = Idle
    /\ DOMAIN blocks' # {}
    /\ DOMAIN blocks' # DOMAIN blocks
    /\ DOMAIN blocks' \subseteq DOMAIN blocks
    /\ LastScannedHeight(blocks') >= LastScannedHeight(blocks) - PRUNE_DEPTH

\* The notes, after the step, of the transactions mined at or below h.
ReceivedUpTo(h) ==
    {n \in DOMAIN received_notes' :
        LET t == transactions'[received_notes'[n].tx]
        IN t.block # Null /\ t.block <= h}

\* C34: after rewind_to_height(h) within the supported window, what the
\* next pass loads is the tree stored for h and, for every note received at
\* a height <= h, exactly one witness, the row stored at h; and a pass that
\* commits a block stores, at the height of the block, a witness row for
\* every note that had one at the height below.
C34_RewindKeepsWitnesses ==
    /\ [][RewindsInWindow =>
            LET h == LastScannedHeight(blocks')
                loaded == LoadWitnesses(sapling_witnesses', h)
            IN /\ LoadTree(blocks', h) = blocks[h].sapling_tree
               /\ \A n \in ReceivedUpTo(h) :
                     Cardinality({i \in DOMAIN loaded : loaded[i].id_note = n}) = 1]_vars
    /\ [][Committing =>
            \A w \in sapling_witnesses :
               w.block = pass.last_height - 1 =>
                  \E v \in sapling_witnesses' :
                     v.note = w.note /\ v.block = pass.last_height]_vars

\* The same for a data database on which no rewind has gone below the
\* pruned heights: every note of a mined transaction has its witness rows
\* before the step.
RewindKeepsWitnessesOfWindowed ==
    [][(RewindsInWindow /\
        \A n \in DOMAIN received_notes :
           n \in WitnessedInWindow(DB, LastScannedHeight(blocks))) =>
            LET h == LastScannedHeight(blocks')
                loaded == LoadWitnesses(sapling_witnesses', h)
            IN \A n \in ReceivedUpTo(h) :
                  Cardinality({i \in DOMAIN loaded : loaded[i].id_note = n}) = 1]_vars


(***************************************************************************)
(* Two scan_cached_blocks calls on the same data database, each on its own *)
(* connection.  pass is the call that takes steps and peer the one that    *)
(* does not; the two change places at any statement.  BEGIN IMMEDIATE      *)
(* takes the write lock of the data database, which the other connection   *)
(* cannot take before COMMIT or rollback (Locked), while it still reads    *)
(* the tables as they were committed.  The cache holds a block at every    *)
(* height from the start.                                                  *)
(***************************************************************************)
\* The transaction lists of the cached blocks: none, a payment to account
\* 0, and a spend of the first note with change.
TwoVtxs(h) ==
    {<<>>, <<Tx(h, 0, <<>>, <<Owned(h, 0, 5)>>)>>,
     <<Tx(h, 0, <<NoteNf(SAPLING_ACTIVATION_HEIGHT, 0, 0)>>, <<Owned(h, 0, 3)>>)>>}

InitTwo ==
    /\ InitTables
    /\ accounts = AllKeys
    /\ hashed = NoHash
    /\ weld = NoWeld
    /\ cache \in {c \in [Heights -> UNION {{[height |-> h, hash |-> 1, prev_hash |-> 1,
                                              vtx |-> vtx] : vtx \in TwoVtxs(h)} :
                                            h \in Heights}] :
                     \A h \in Heights : c[h].height = h}

\* The other call goes on.
Switch ==
    /\ pass # peer
    /\ pass' = peer
    /\ peer' = pass
    /\ UNCHANGED <<hashed, accounts, cache, reorgs, dbvars, ret, weld>>

NextTwo ==
    \/ ScanStep
    \/ Switch

SpecTwo == InitTwo /\ [][NextTwo]_vars

\* The tables the block of the pass would leave if a call that starts now,
\* on the tables as they are, scanned it: the statements of lib.rs:579-739
\* on what lib.rs:480-545 reads.
SerialCommit ==
    LET h == pass.last_height
        loaded == LoadWitnesses(sapling_witnesses, h - 1)
        r == scan_block(pass.block, pass.extfvks, LoadNullifiers(received_notes, 1), LoadTree(blocks, h - 1),
                        [i \in DOMAIN loaded |-> loaded[i].witness])
        ib == InsertBlock(DB, h, r.tree)
        pt == PersistTxs([db |-> ib.db,
                          witnesses |-> [i \in DOMAIN loaded |->
                                            [loaded[i] EXCEPT !.witness = r.existing_witnesses[i]]],
                          nullifiers |-> LoadNullifiers(received_notes, 1), failed |-> FALSE],
                         h, r.wtxs, 1)
        iw == InsertWitnesses(pt.db, pt.witnesses, h)
    IN UpdateExpired(PruneWitnesses(iw.db, h), h)

\* C38: when two scan_cached_blocks calls overlap, no height is applied
\* twice: a block is committed only at a height that has no row, by a call
\* whose height follows the last scanned one, and what it commits is what a
\* call started at that moment would commit, so that the tables are at all
\* times those of a serial execution; a call that comes to insert a block
\* at a height that has a row fails there and the tables stay as they are.
C38_OverlappingPasses ==
    /\ [][Committing =>
            /\ pass.last_height \notin DOMAIN blocks
            /\ pass.last_height = LastScannedHeight(blocks) + 1
            /\ pass.txn = SerialCommit]_vars
    /\ [][(/\ pass.pc = "insert_block" /\ pass.last_height \in DOMAIN blocks
           /\ pass' # pass /\ peer' = peer) =>
            /\ pass' = Idle
            /\ ret'.kind = "Database"
            /\ UNCHANGED dbvars]_vars
    /\ [](C35_HeightsConsistent /\ TxidUnique)

\* Two calls have started on the same tables; one has committed the block
\* at the activation height and the next one, with notes, and the other,
\* still holding what it read before those commits, has come to insert the
\* block at the activation height.
C38_Witness ==
    /\ pass.pc = "insert_block"
    /\ pass.last_height = SAPLING_ACTIVATION_HEIGHT
    /\ peer # Idle
    /\ peer.pc = "loop"
    /\ peer.last_height = SAPLING_ACTIVATION_HEIGHT + 1
    /\ DOMAIN blocks = {SAPLING_ACTIVATION_HEIGHT, SAPLING_ACTIVATION_HEIGHT + 1}
    /\ Len(received_notes) = 2


(***************************************************************************)
(* Calls of two callers on the same databases: init_accounts_table,        *)
(* init_blocks_table, scan_cached_blocks, validate_combined_chain,         *)
(* rewind_to_height and get_verified_balance, the statements of one call   *)
(* between those of the other.  While one call has its transaction open    *)
(* the other reads the tables as they were committed and fails at the      *)
(* statement that writes; a call that reads in two statements may read the *)
(* tables of two different commits; a write or a COMMIT may fail against   *)
(* the lock of the other connection and leave the tables unchanged.        *)
(***************************************************************************)
NextOverlap ==
    \/ InitAccountsStep({AllKeys})
    \/ InitBlocksTable(Heights, {EmptyTree, <<7>>})
    \/ InitBlocksInsert
    \/ ScanStep
    \/ ValidateStep
    \/ Rewind
    \/ GetVerifiedBalanceStep({0})
    \/ Switch

\* The accounts table is empty or holds the NumAccounts keys; the cache
\* holds a payment to account 0 at the activation height, a block without
\* transactions, and a block that spends the payment with change.
InitOverlap ==
    /\ InitTables
    /\ accounts \in {<<>>, AllKeys}
    /\ hashed = NoHash
    /\ weld = NoWeld
    /\ cache \in {c \in [Heights -> UNION {{[height |-> h, hash |-> 1, prev_hash |-> 1,
                                              vtx |-> vtx] : vtx \in TwoVtxs(h)} :
                                            h \in Heights}] :
                     \A h \in Heights : c[h].height = h}
    /\ Len(cache[SAPLING_ACTIVATION_HEIGHT].vtx) = 1
    /\ cache[SAPLING_ACTIVATION_HEIGHT].vtx[1].spends = <<>>
    /\ cache[SAPLING_ACTIVATION_HEIGHT + 1].vtx = <<>>
    /\ Len(cache[SAPLING_ACTIVATION_HEIGHT + 2].vtx) = 1
    /\ cache[SAPLING_ACTIVATION_HEIGHT + 2].vtx[1].spends # <<>>

SpecOverlap == InitOverlap /\ [][NextOverlap]_vars
====
